---- MODULE Spec2Model ----
(***************************************************************************)
(* Opening graph engine of chess-openings (js/fen-utils.js): position      *)
(* codec, node/edge store, history stack and route-file loader.            *)
(*                                                                         *)
(* A string is modelled by the sequence of its space-separated fields      *)
(* (s.split(' ') / parts.join(' ') is a bijection between the two), so     *)
(* 'start' is <<"start">> and a FEN is a six-field sequence.  Array        *)
(* indices are the 0-based JavaScript indices; At(s, i) reads s[i].        *)
(***************************************************************************)
EXTENDS Integers, Sequences, FiniteSets, TLC

VARIABLES
    graphNodes,           \* array of node keys
    graphEdges,           \* array of [from, to, move, fullFEN, annotation]
    stateToIndex,         \* Map: node key -> index in graphNodes
    edgeMap,              \* Map: <<from, to>> ("from-to") -> index in graphEdges
    currentBoardState,    \* normalized key of the position on the board
    lastEdgeIndex,        \* index of the edge last created/updated, or -1
    loadedTitle,          \* title of the loaded route file
    moveHistory,          \* array of visited keys
    historyIndex,         \* current position in moveHistory
    isNavigatingHistory,  \* TRUE while undo/redo replays a position
    gameFen,              \* game.fen(): full key held by the move oracle
    cachedDagrePositions, \* cached layout (the graph it was computed for) or Null
    lastGraphStructure,   \* 'nodeCount-edgeCount' of the cached layout or Null
    nodePositions,        \* the layout drawn last (what a click hits)
    invalidCount,         \* skipped-line count of the last load
    lastOp,               \* the handler that ran last, with its arguments
    roundTrip,            \* the current run of moves and the undos that followed
    codecIn,              \* codec harness: the key handed to the codec
    codecOut,             \* codec harness: successive results of normalizeFEN
    exportJob             \* exportAllStates: the prompt it awaits and the content built

vars == <<graphNodes, graphEdges, stateToIndex, edgeMap, currentBoardState,
          lastEdgeIndex, loadedTitle, moveHistory, historyIndex,
          isNavigatingHistory, gameFen, cachedDagrePositions,
          lastGraphStructure, nodePositions, invalidCount, lastOp, roundTrip,
          codecIn, codecOut, exportJob>>

graphVars == <<graphNodes, graphEdges, stateToIndex, edgeMap, lastEdgeIndex,
               cachedDagrePositions, lastGraphStructure, nodePositions>>
historyVars == <<moveHistory, historyIndex, isNavigatingHistory>>
boardVars == <<currentBoardState, gameFen>>
codecVars == <<codecIn, codecOut>>

----------------------------------------------------------------------------
(* Bounds of the model *)

\* longest moveHistory a session builds
MaxHistory == 4
\* most edges a session builds by moves and redos
MaxEdges == 4
\* most body lines of a file handed to the loader alone
MaxLines == 2
\* edges the graph functions are called up to
MaxApiEdges == 1
\* edges the graph store is grown to by addEdgeToGraph calls
MaxStoreEdges == 3
\* successive applications of normalizeFEN to one key
MaxApply == 2

----------------------------------------------------------------------------
(* JavaScript values *)

\* the value of Map.get on a missing key (never equal to an index)
Undefined == -1
\* null, and the empty array
Null == <<>>
\* the empty string: ''.split(' ') is ['']
EmptyStr == <<"">>
EmptyMap == [x \in {} |-> 0]

At(s, i) == s[i + 1]
MapGet(m, k) == IF k \in DOMAIN m THEN m[k] ELSE Undefined
MapSet(m, k, v) == [x \in (DOMAIN m) \cup {k} |-> IF x = k THEN v ELSE m[x]]
MapDelete(m, k) == [x \in (DOMAIN m) \ {k} |-> m[x]]

\* decimal numerals of the move counters
Numerals == <<"0", "1", "2", "3", "4", "5", "6", "7", "8", "9", "10">>
ToNum(s) == CHOOSE n \in 0..(Len(Numerals) - 1) : Numerals[n + 1] = s
ToStr(n) == Numerals[n + 1]

----------------------------------------------------------------------------
(* Position codec *)

START == <<"start">>

START_PLACEMENT == "rnbqkbnr/pppppppp/8/8/8/8/PPPPPPPP/RNBQKBNR"
START_FEN == <<START_PLACEMENT, "w", "KQkq", "-", "0", "1">>

normalizeFEN_resetFullmoveOnly(fen) ==
    IF fen = START THEN START
    ELSE IF Len(fen) = 6
         THEN [fen EXCEPT ![4] = "-", ![5] = fen[6], ![6] = "1"]
         ELSE fen

normalizeFEN_keepEnPassant(fen) ==
    IF fen = START THEN START
    ELSE IF Len(fen) = 6
         THEN [fen EXCEPT ![5] = "0", ![6] = "1"]
         ELSE fen

normalizeFEN_keepHalfmove(fen) ==
    IF fen = START THEN START
    ELSE IF Len(fen) = 6
         THEN [fen EXCEPT ![4] = "-", ![6] = "1"]
         ELSE fen

normalizeFEN_dropCastling(fen) ==
    IF fen = START THEN START
    ELSE IF Len(fen) = 6
         THEN [fen EXCEPT ![3] = "-", ![4] = "-", ![5] = "0", ![6] = "1"]
         ELSE fen

normalizeFEN_atLeastSix(fen) ==
    IF fen = START THEN START
    ELSE IF Len(fen) >= 6
         THEN [fen EXCEPT ![4] = "-", ![5] = "0", ![6] = "1"]
         ELSE fen

normalizeFEN(fen) ==
    IF fen = START THEN START
    ELSE IF Len(fen) = 6
         THEN [fen EXCEPT ![4] = "-", ![5] = "0", ![6] = "1"]
         ELSE fen

getFENKey_fourFields(fen) ==
    IF fen = START THEN START
    ELSE IF Len(fen) >= 4 THEN SubSeq(fen, 1, 4) ELSE fen

getFENKey(fen) ==
    IF fen = START THEN START
    ELSE IF Len(fen) >= 3 THEN SubSeq(fen, 1, 3) ELSE fen

----------------------------------------------------------------------------
(* Move-legality oracle (chess.js), restricted to the e-pawn push and the   *)
(* king's knights: E = white pawn on e4, N = white knight on f3,            *)
(* n = black knight on f6; and to one en-passant capture, dxe3 by a black   *)
(* pawn on d4 right after e2-e4.                                            *)

Boards ==
    { [E |-> FALSE, N |-> FALSE, n |-> FALSE, fen |-> START_PLACEMENT],
      [E |-> TRUE,  N |-> FALSE, n |-> FALSE, fen |-> "rnbqkbnr/pppppppp/8/8/4P3/8/PPPP1PPP/RNBQKBNR"],
      [E |-> FALSE, N |-> TRUE,  n |-> FALSE, fen |-> "rnbqkbnr/pppppppp/8/8/8/5N2/PPPPPPPP/RNBQKB1R"],
      [E |-> FALSE, N |-> FALSE, n |-> TRUE,  fen |-> "rnbqkb1r/pppppppp/5n2/8/8/8/PPPPPPPP/RNBQKBNR"],
      [E |-> TRUE,  N |-> TRUE,  n |-> FALSE, fen |-> "rnbqkbnr/pppppppp/8/8/4P3/5N2/PPPP1PPP/RNBQKB1R"],
      [E |-> TRUE,  N |-> FALSE, n |-> TRUE,  fen |-> "rnbqkb1r/pppppppp/5n2/8/4P3/8/PPPP1PPP/RNBQKBNR"],
      [E |-> FALSE, N |-> TRUE,  n |-> TRUE,  fen |-> "rnbqkb1r/pppppppp/5n2/8/8/5N2/PPPPPPPP/RNBQKB1R"],
      [E |-> TRUE,  N |-> TRUE,  n |-> TRUE,  fen |-> "rnbqkb1r/pppppppp/5n2/8/4P3/5N2/PPPP1PPP/RNBQKB1R"] }

\* black pawn on d4 beside the white pawn that has just reached e4, and the
\* placement after the capture dxe3
EnPassantBefore == "rnbqkbnr/ppp1pppp/8/8/3pP3/8/PPPP1PPP/RNBQKBNR"
EnPassantAfter == "rnbqkbnr/ppp1pppp/8/8/8/4p3/PPPP1PPP/RNBQKBNR"

KnownPlacements == { b.fen : b \in Boards } \cup { EnPassantBefore, EnPassantAfter }
BoardOf(placement) == CHOOSE b \in Boards : b.fen = placement
PlacementOf(E, N, n) == (CHOOSE b \in Boards : b.E = E /\ b.N = N /\ b.n = n).fen

\* a FEN the oracle can load
Loadable(fen) ==
    /\ Len(fen) = 6
    /\ fen[1] \in KnownPlacements
    /\ fen[2] \in {"w", "b"}
    /\ \E k \in 1..(Len(Numerals) - 1) : Numerals[k] = fen[5]
    /\ \E k \in 1..(Len(Numerals) - 1) : Numerals[k] = fen[6]

\* game.moves(): the SAN tokens legal in fen
LegalMoves(fen) ==
    IF ~Loadable(fen) THEN {}
    ELSE IF fen[1] = EnPassantBefore
    THEN (IF fen[2] = "b" /\ fen[4] = "e3" THEN {"dxe3"} ELSE {})
    ELSE IF fen[1] = EnPassantAfter THEN {}
    ELSE LET b == BoardOf(fen[1])
         IN IF fen[2] = "w"
            THEN (IF b.E THEN {} ELSE {"e4"})
                 \cup (IF b.N THEN {"Ng1"} ELSE {"Nf3"})
            ELSE (IF b.n THEN {"Ng8"} ELSE {"Nf6"})

\* game.move(san); game.fen(): the full key after a legal move
ApplyMove(fen, san) ==
    LET b == BoardOf(fen[1])
        placement ==
            CASE san = "dxe3" -> EnPassantAfter
              [] san = "e4"  -> PlacementOf(TRUE, b.N, b.n)
              [] san = "Nf3" -> PlacementOf(b.E, TRUE, b.n)
              [] san = "Ng1" -> PlacementOf(b.E, FALSE, b.n)
              [] san = "Nf6" -> PlacementOf(b.E, b.N, TRUE)
              [] san = "Ng8" -> PlacementOf(b.E, b.N, FALSE)
        turn == IF fen[2] = "w" THEN "b" ELSE "w"
        ep == IF san = "e4" THEN "e3" ELSE "-"
        half == IF san \in {"e4", "dxe3"} THEN "0" ELSE ToStr(ToNum(fen[5]) + 1)
        full == IF fen[2] = "b" THEN ToStr(ToNum(fen[6]) + 1) ELSE fen[6]
    IN <<placement, turn, fen[3], ep, half, full>>

\* a temporary game: SAN accepted only as one token that is legal in fromFen
MoveResult(fromFen, moveNotation) ==
    IF Len(moveNotation) = 1 /\ moveNotation[1] \in LegalMoves(fromFen)
    THEN ApplyMove(fromFen, moveNotation[1])
    ELSE Null

----------------------------------------------------------------------------
(* validateState *)

\* placements with fewer than 8 ranks that a file may hold
ShortPlacements == {"8/8/8/8"}
\* parts[0].split('/').length
RankCount(placement) ==
    IF placement \in KnownPlacements THEN 8
    ELSE IF placement \in ShortPlacements THEN 4 ELSE 1
\* the field contains '/'
ContainsSlash(field) == field \in KnownPlacements \cup ShortPlacements

CastlingTokens == {"-", "K", "Q", "k", "q", "KQ", "Kq", "Kk", "kq", "Qkq", "KQkq"}
EnPassantTokens == {"-"} \cup {"a3", "b3", "c3", "d3", "e3", "f3", "g3", "h3",
                               "a6", "b6", "c6", "d6", "e6", "f6", "g6", "h6"}

validateState(state) ==
    IF state = START THEN TRUE
    ELSE /\ Len(state) = 6
         /\ RankCount(state[1]) = 8
         /\ state[2] \in {"w", "b"}
         /\ state[3] \in CastlingTokens
         /\ state[4] \in EnPassantTokens

stateToFEN(state) == IF state = START THEN START_FEN ELSE state

\* boardToFEN with game.fen() = fen
boardToFEN(fen) == IF fen = START_FEN THEN START ELSE normalizeFEN(fen)

----------------------------------------------------------------------------
(* Opening graph.  The operators below take and return the graph as a       *)
(* record g of the globals they read and write: graphNodes, graphEdges,     *)
(* stateToIndex, edgeMap, lastEdgeIndex, cachedDagrePositions,              *)
(* lastGraphStructure, nodePositions.                                       *)

EmptyGraph ==
    [graphNodes |-> <<>>, graphEdges |-> <<>>, stateToIndex |-> EmptyMap,
     edgeMap |-> EmptyMap, lastEdgeIndex |-> -1,
     cachedDagrePositions |-> Null, lastGraphStructure |-> Null,
     nodePositions |-> <<>>]

\* the key under which addNodeToGraph files a state
NodeKey(state) ==
    LET normalizedState == normalizeFEN(state)
    IN IF normalizedState = START_FEN THEN START ELSE normalizedState

addNodeToGraph_noStartKeyword(g, state) ==
    LET normalizedState == normalizeFEN(state)
    IN IF normalizedState \notin DOMAIN g.stateToIndex
       THEN [g |-> [g EXCEPT !.graphNodes = Append(@, normalizedState),
                             !.stateToIndex = MapSet(@, normalizedState, Len(g.graphNodes))],
             index |-> Len(g.graphNodes)]
       ELSE [g |-> g, index |-> g.stateToIndex[normalizedState]]

addNodeToGraph(g, state) ==
    LET normalizedState == NodeKey(state)
    IN IF normalizedState \notin DOMAIN g.stateToIndex
       THEN [g |-> [g EXCEPT !.graphNodes = Append(@, normalizedState),
                             !.stateToIndex = MapSet(@, normalizedState, Len(g.graphNodes))],
             index |-> Len(g.graphNodes)]
       ELSE [g |-> g, index |-> g.stateToIndex[normalizedState]]

\* dagre.layout: the positions are a function of the node list and edge set
Layout(g) ==
    [nodes |-> g.graphNodes,
     edges |-> { <<g.graphEdges[i].from, g.graphEdges[i].to>> : i \in 1..Len(g.graphEdges) }]

\* drawGraph with a canvas, without precomputed positions (Edit mode)
drawGraph(g) ==
    IF Len(g.graphNodes) = 0 THEN g
    ELSE LET currentStructure == <<Len(g.graphNodes), Len(g.graphEdges)>>
             structureChanged == currentStructure # g.lastGraphStructure
         IN IF ~structureChanged /\ g.cachedDagrePositions # Null
            THEN [g EXCEPT !.nodePositions = g.cachedDagrePositions]
            ELSE [g EXCEPT !.nodePositions = <<Layout(g)>>,
                           !.cachedDagrePositions = <<Layout(g)>>,
                           !.lastGraphStructure = currentStructure]

\* x || '' and (x !== undefined && x !== ''): undefined is modelled by ''
Provided(x) == x # EmptyStr

addEdgeToGraph_alwaysPush(g, fromState, toState, annotation, skipDraw, move, fullFEN) ==
    LET a == addNodeToGraph(g, fromState)
        b == addNodeToGraph(a.g, toState)
        newEdge == [from |-> a.index, to |-> b.index, move |-> move,
                    fullFEN |-> fullFEN, annotation |-> annotation]
    IN [b.g EXCEPT !.graphEdges = Append(@, newEdge),
                   !.edgeMap = MapSet(@, <<a.index, b.index>>, Len(b.g.graphEdges)),
                   !.lastEdgeIndex = Len(b.g.graphEdges)]

addEdgeToGraph_noInsert(g, fromState, toState, annotation, skipDraw, move, fullFEN) ==
    addNodeToGraph(addNodeToGraph(g, fromState).g, toState).g

addEdgeToGraph_overwriteAll(g, fromState, toState, annotation, skipDraw, move, fullFEN) ==
    LET a == addNodeToGraph(g, fromState)
        b == addNodeToGraph(a.g, toState)
        edgeKey == <<a.index, b.index>>
        existingEdgeIndex == MapGet(b.g.edgeMap, edgeKey)
        newEdge == [from |-> a.index, to |-> b.index, move |-> move,
                    fullFEN |-> fullFEN, annotation |-> annotation]
    IN IF existingEdgeIndex = Undefined
       THEN [b.g EXCEPT !.graphEdges = Append(@, newEdge),
                        !.edgeMap = MapSet(@, edgeKey, Len(b.g.graphEdges)),
                        !.lastEdgeIndex = Len(b.g.graphEdges)]
       ELSE [b.g EXCEPT !.graphEdges[existingEdgeIndex + 1] = newEdge,
                        !.lastEdgeIndex = existingEdgeIndex]

addEdgeToGraph(g, fromState, toState, annotation, skipDraw, move, fullFEN) ==
    LET a == addNodeToGraph(g, fromState)
        b == addNodeToGraph(a.g, toState)
        fromIndex == a.index
        toIndex == b.index
        edgeKey == <<fromIndex, toIndex>>
        existingEdgeIndex == MapGet(b.g.edgeMap, edgeKey)
        newEdge == [from |-> fromIndex, to |-> toIndex, move |-> move,
                    fullFEN |-> fullFEN, annotation |-> annotation]
        old == At(b.g.graphEdges, existingEdgeIndex)
        g1 == IF existingEdgeIndex = Undefined
              THEN [b.g EXCEPT !.graphEdges = Append(@, newEdge),
                               !.edgeMap = MapSet(@, edgeKey, Len(b.g.graphEdges)),
                               !.lastEdgeIndex = Len(b.g.graphEdges)]
              ELSE [b.g EXCEPT !.graphEdges[existingEdgeIndex + 1] =
                                   [old EXCEPT
                                       !.annotation = IF Provided(annotation) THEN annotation ELSE @,
                                       !.move = IF Provided(move) THEN move ELSE @,
                                       !.fullFEN = IF Provided(fullFEN) THEN fullFEN ELSE @],
                               !.lastEdgeIndex = existingEdgeIndex]
    IN IF skipDraw THEN g1 ELSE drawGraph(g1)

----------------------------------------------------------------------------
(* Orphan removal and pruning *)

RECURSIVE ShiftAfter(_, _, _)
\* for (m = removeIndex; m < graphNodes.length; m++) stateToIndex.set(graphNodes[m], m)
ShiftAfter(s2i, nodes, m) ==
    IF m >= Len(nodes) THEN s2i
    ELSE ShiftAfter(MapSet(s2i, At(nodes, m), m), nodes, m + 1)

\* graphNodes.splice(removeIndex, 1)
Splice(seq, removeIndex) ==
    SubSeq(seq, 1, removeIndex) \o SubSeq(seq, removeIndex + 2, Len(seq))

\* one pass of the removal loop, for the node at removeIndex
RemoveNodeAt_keepEdgeIndices(g, removeIndex) ==
    LET nodes == Splice(g.graphNodes, removeIndex)
    IN [g EXCEPT !.graphNodes = nodes,
                 !.stateToIndex = ShiftAfter(MapDelete(@, At(g.graphNodes, removeIndex)),
                                             nodes, removeIndex)]

RemoveNodeAt_keepStateToIndex(g, removeIndex) ==
    LET nodes == Splice(g.graphNodes, removeIndex)
    IN [g EXCEPT !.graphNodes = nodes,
                 !.stateToIndex = MapDelete(@, At(g.graphNodes, removeIndex)),
                 !.graphEdges = [n \in 1..Len(@) |->
                     [@[n] EXCEPT !.from = IF @ > removeIndex THEN @ - 1 ELSE @,
                                  !.to = IF @ > removeIndex THEN @ - 1 ELSE @]]]

RemoveNodeAt(g, removeIndex) ==
    LET removedState == At(g.graphNodes, removeIndex)
        nodes == Splice(g.graphNodes, removeIndex)
    IN [g EXCEPT !.graphNodes = nodes,
                 !.stateToIndex = ShiftAfter(MapDelete(@, removedState), nodes, removeIndex),
                 !.graphEdges = [n \in 1..Len(@) |->
                     [@[n] EXCEPT !.from = IF @ > removeIndex THEN @ - 1 ELSE @,
                                  !.to = IF @ > removeIndex THEN @ - 1 ELSE @]]]

RECURSIVE RemoveNodes(_, _)
\* nodesToRemove.reverse(); for each removeIndex, highest first
RemoveNodes(g, nodesToRemove) ==
    IF nodesToRemove = {} THEN g
    ELSE LET removeIndex == CHOOSE j \in nodesToRemove : \A k \in nodesToRemove : k <= j
         IN RemoveNodes(RemoveNodeAt(g, removeIndex), nodesToRemove \ {removeIndex})

\* edgeMap = new Map(); for each edge i: edgeMap.set(from + '-' + to, i)
RECURSIVE RebuildFrom(_, _, _)
RebuildFrom(emap, edges, i) ==
    IF i >= Len(edges) THEN emap
    ELSE RebuildFrom(MapSet(emap, <<At(edges, i).from, At(edges, i).to>>, i), edges, i + 1)

RebuildEdgeMap(edges) == RebuildFrom(EmptyMap, edges, 0)

removeOrphanedNodes_rootNotKept(g) ==
    LET nodesWithEdges ==
            { g.graphEdges[i].from : i \in 1..Len(g.graphEdges) }
            \cup { g.graphEdges[i].to : i \in 1..Len(g.graphEdges) }
        nodesToRemove == { j \in 0..(Len(g.graphNodes) - 1) : j \notin nodesWithEdges }
    IN IF nodesToRemove = {} THEN g
       ELSE LET g1 == RemoveNodes(g, nodesToRemove)
            IN [g1 EXCEPT !.edgeMap = RebuildEdgeMap(g1.graphEdges)]

removeOrphanedNodes(g) ==
    LET nodesWithEdges ==
            {MapGet(g.stateToIndex, START)}
            \cup { g.graphEdges[i].from : i \in 1..Len(g.graphEdges) }
            \cup { g.graphEdges[i].to : i \in 1..Len(g.graphEdges) }
        nodesToRemove == { j \in 0..(Len(g.graphNodes) - 1) : j \notin nodesWithEdges }
    IN IF nodesToRemove = {} THEN g
       ELSE LET g1 == RemoveNodes(g, nodesToRemove)
            IN [g1 EXCEPT !.edgeMap = RebuildEdgeMap(g1.graphEdges)]

RECURSIVE FilterEdges_byTarget(_, _)
FilterEdges_byTarget(edges, fromStateIndex) ==
    IF edges = <<>> THEN <<>>
    ELSE (IF Head(edges).to # fromStateIndex THEN <<Head(edges)>> ELSE <<>>)
         \o FilterEdges_byTarget(Tail(edges), fromStateIndex)

RECURSIVE FilterEdges_bothEnds(_, _)
FilterEdges_bothEnds(edges, fromStateIndex) ==
    IF edges = <<>> THEN <<>>
    ELSE (IF Head(edges).from # fromStateIndex /\ Head(edges).to # fromStateIndex
          THEN <<Head(edges)>> ELSE <<>>)
         \o FilterEdges_bothEnds(Tail(edges), fromStateIndex)

\* graphEdges.filter(edge => edge.from !== fromStateIndex)
RECURSIVE FilterEdges(_, _)
FilterEdges(edges, fromStateIndex) ==
    IF edges = <<>> THEN <<>>
    ELSE (IF Head(edges).from # fromStateIndex THEN <<Head(edges)>> ELSE <<>>)
         \o FilterEdges(Tail(edges), fromStateIndex)

removeFutureFromGraph_staleEdgeMap(g, fromStateIndex) ==
    LET edges == FilterEdges(g.graphEdges, fromStateIndex)
        g1 == [g EXCEPT !.graphEdges = edges]
    IN drawGraph(removeOrphanedNodes(g1))

removeFutureFromGraph(g, fromStateIndex) ==
    LET edges == FilterEdges(g.graphEdges, fromStateIndex)
        g1 == [g EXCEPT !.graphEdges = edges, !.edgeMap = RebuildEdgeMap(edges)]
    IN drawGraph(removeOrphanedNodes(g1))

----------------------------------------------------------------------------
(* Route files.  A file is [version, title, body]: the trimmed first line,  *)
(* the trimmed second line (Null when the file has one line) and the        *)
(* trimmed lines after it; '#', '->', ':' and '=' stand as fields of their  *)
(* own, as the format writes them.                                          *)

\* version.startsWith('v')
StartsWithV(version) == version[1] \in {"v4.0", "v3.0"}

ArrowPositions(line) == { i \in 1..Len(line) : line[i] = "->" }
\* line.substring(a, b).trim(), by fields
Part(line, a, b) == IF a > b THEN EmptyStr ELSE SubSeq(line, a, b)

RECURSIVE Join(_)
\* pendingComments.join(' ')
Join(comments) ==
    IF comments = <<>> THEN EmptyStr
    ELSE IF Len(comments) = 1 THEN comments[1]
    ELSE comments[1] \o Join(Tail(comments))

ParseLine_commentsSurviveSkip(ls, line) ==
    IF line = EmptyStr THEN ls
    ELSE IF line[1] = "#"
    THEN LET comment == Part(line, 2, Len(line))
         IN IF comment # EmptyStr
            THEN [ls EXCEPT !.pendingComments = Append(@, comment)]
            ELSE ls
    ELSE IF ArrowPositions(line) # {}
    THEN IF Cardinality(ArrowPositions(line)) = 1
         THEN LET p == CHOOSE i \in ArrowPositions(line) : TRUE
                  fromState == Part(line, 1, p - 1)
                  toPart == Part(line, p + 1, Len(line))
                  annotation == Join(ls.pendingComments)
                  ls1 == [ls EXCEPT !.pendingComments = <<>>]
                  skipped == [ls EXCEPT !.invalidCount = @ + 1]
              IN IF validateState(fromState)
                 THEN IF (\E i \in 1..Len(toPart) : ContainsSlash(toPart[i])) \/ toPart = START
                      THEN LET normalizedFrom == normalizeFEN(fromState)
                               normalizedTo == normalizeFEN(toPart)
                           IN IF validateState(normalizedTo)
                              THEN [ls1 EXCEPT !.g = addEdgeToGraph(@, normalizedFrom, normalizedTo,
                                                         annotation, TRUE, EmptyStr, fromState)]
                              ELSE skipped
                      ELSE LET moveNotation == toPart
                               fromFen == stateToFEN(fromState)
                               resultFen == MoveResult(fromFen, moveNotation)
                           IN IF resultFen = Null
                              THEN skipped
                              ELSE LET toState == IF resultFen = START_FEN THEN START
                                                  ELSE normalizeFEN(resultFen)
                                       normalizedFromState == normalizeFEN(fromFen)
                                   IN [ls1 EXCEPT !.g = addEdgeToGraph(@, normalizedFromState, toState,
                                                         annotation, TRUE, moveNotation, fromFen)]
                 ELSE skipped
         ELSE [ls EXCEPT !.invalidCount = @ + 1, !.pendingComments = <<>>]
    ELSE IF \E i \in 1..Len(line) : line[i] = ":"
    THEN [ls EXCEPT !.pendingComments = <<>>]
    ELSE ls

\* one pass of the parse loop; ls = [g, invalidCount, pendingComments]
ParseLine(ls, line) ==
    IF line = EmptyStr THEN ls
    ELSE IF line[1] = "#"
    THEN LET comment == Part(line, 2, Len(line))
         IN IF comment # EmptyStr
            THEN [ls EXCEPT !.pendingComments = Append(@, comment)]
            ELSE ls
    ELSE IF ArrowPositions(line) # {}
    THEN IF Cardinality(ArrowPositions(line)) = 1
         THEN LET p == CHOOSE i \in ArrowPositions(line) : TRUE
                  fromState == Part(line, 1, p - 1)
                  toPart == Part(line, p + 1, Len(line))
                  annotation == Join(ls.pendingComments)
                  ls1 == [ls EXCEPT !.pendingComments = <<>>]
                  skipped == [ls1 EXCEPT !.invalidCount = @ + 1]
              IN IF validateState(fromState)
                 THEN IF (\E i \in 1..Len(toPart) : ContainsSlash(toPart[i])) \/ toPart = START
                      THEN LET normalizedFrom == normalizeFEN(fromState)
                               normalizedTo == normalizeFEN(toPart)
                           IN IF validateState(normalizedTo)
                              THEN [ls1 EXCEPT !.g = addEdgeToGraph(@, normalizedFrom, normalizedTo,
                                                         annotation, TRUE, EmptyStr, fromState)]
                              ELSE skipped
                      ELSE LET moveNotation == toPart
                               fromFen == stateToFEN(fromState)
                               resultFen == MoveResult(fromFen, moveNotation)
                           IN IF resultFen = Null
                              THEN skipped
                              ELSE LET toState == IF resultFen = START_FEN THEN START
                                                  ELSE normalizeFEN(resultFen)
                                       normalizedFromState == normalizeFEN(fromFen)
                                   IN [ls1 EXCEPT !.g = addEdgeToGraph(@, normalizedFromState, toState,
                                                         annotation, TRUE, moveNotation, fromFen)]
                 ELSE skipped
         ELSE [ls EXCEPT !.invalidCount = @ + 1, !.pendingComments = <<>>]
    ELSE IF \E i \in 1..Len(line) : line[i] = ":"
    THEN [ls EXCEPT !.pendingComments = <<>>]
    ELSE ls

RECURSIVE ParseLines(_, _)
ParseLines(ls, lines) ==
    IF lines = <<>> THEN ls ELSE ParseLines(ParseLine(ls, Head(lines)), Tail(lines))

HeaderOK_anyVersion(file) ==
    /\ StartsWithV(file.version)
    /\ file.title # Null
    /\ file.title[1] = "="

\* the header checks: version, then title
HeaderOK(file) ==
    /\ StartsWithV(file.version)
    /\ file.version = <<"v4.0">>
    /\ file.title # Null
    /\ file.title[1] = "="

ParseBody_noReset(file) ==
    ParseLines([g |-> [EmptyGraph EXCEPT !.graphNodes = graphNodes,
                                         !.graphEdges = graphEdges,
                                         !.stateToIndex = stateToIndex,
                                         !.edgeMap = edgeMap],
                invalidCount |-> 0, pendingComments |-> <<>>], file.body)

\* the parse of a file with a good header, from the reset graph
ParseBody(file) ==
    ParseLines([g |-> EmptyGraph, invalidCount |-> 0, pendingComments |-> <<>>], file.body)

----------------------------------------------------------------------------
(* Session state *)

G == [graphNodes |-> graphNodes, graphEdges |-> graphEdges,
      stateToIndex |-> stateToIndex, edgeMap |-> edgeMap,
      lastEdgeIndex |-> lastEdgeIndex,
      cachedDagrePositions |-> cachedDagrePositions,
      lastGraphStructure |-> lastGraphStructure,
      nodePositions |-> nodePositions]

SetGraph(g) ==
    /\ graphNodes' = g.graphNodes
    /\ graphEdges' = g.graphEdges
    /\ stateToIndex' = g.stateToIndex
    /\ edgeMap' = g.edgeMap
    /\ lastEdgeIndex' = g.lastEdgeIndex
    /\ cachedDagrePositions' = g.cachedDagrePositions
    /\ lastGraphStructure' = g.lastGraphStructure
    /\ nodePositions' = g.nodePositions

\* the edges of g as (source key, target key) pairs
EdgeKeys(nodes, edges) ==
    { <<At(nodes, edges[i].from), At(nodes, edges[i].to)>> : i \in 1..Len(edges) }

\* moves/undos/base: the current run of moves and the undos after it;
\* back/forth/top: the current run of undos, the redos after it and the index
\* the undos started from
Idle == [moves |-> 0, undos |-> 0, base |-> {}, back |-> 0, forth |-> 0, top |-> 0]

Visit_noTruncate(state, addToHistoryFlag) ==
    IF addToHistoryFlag /\ ~isNavigatingHistory
    THEN /\ moveHistory' = Append(moveHistory, state)
         /\ historyIndex' = Len(moveHistory)
    ELSE UNCHANGED <<moveHistory, historyIndex>>

\* the history part of loadState: visit(state)
Visit(state, addToHistoryFlag) ==
    IF addToHistoryFlag /\ ~isNavigatingHistory
    THEN /\ moveHistory' = Append(SubSeq(moveHistory, 1, historyIndex + 1), state)
         /\ historyIndex' = historyIndex + 1
    ELSE UNCHANGED <<moveHistory, historyIndex>>

\* loadState(state, addToHistoryFlag), the graph being g when it is called
loadState(g, state, addToHistoryFlag) ==
    LET normalizedState == normalizeFEN(state)
    IN /\ gameFen' = stateToFEN(normalizedState)
       /\ currentBoardState' = normalizedState
       /\ Visit(state, addToHistoryFlag)
       /\ SetGraph(drawGraph(g))

----------------------------------------------------------------------------
(* The files a session loads *)

AfterE4 == ApplyMove(START_FEN, "e4")
AfterNf3 == ApplyMove(START_FEN, "Nf3")
AfterNf3Nf6 == ApplyMove(AfterNf3, "Nf6")
AfterE4Nf6 == ApplyMove(AfterE4, "Nf6")

Line(fromState, toPart) == fromState \o <<"->">> \o toPart

RootE4 == Line(START, <<"e4">>)
RootNf3 == Line(START, <<"Nf3">>)
E4Nf6 == Line(AfterE4, <<"Nf6">>)
Nf3Nf6 == Line(AfterNf3, <<"Nf6">>)
\* the two move orders into the position after e4, Nf3 and Nf6
ViaNf3 == Line(AfterE4Nf6, <<"Nf3">>)
ViaE4 == Line(AfterNf3Nf6, <<"e4">>)
\* legacy 'state -> state' lines
LegacyRootRoot == Line(START, START)
LegacyBack == Line(AfterNf3, <<START_PLACEMENT, "w", "KQkq", "-", "2", "2">>)
\* a legacy line whose move is the en-passant capture dxe3
EnPassantFull == <<EnPassantBefore, "b", "KQkq", "e3", "0", "3">>
LegacyEnPassant == Line(EnPassantFull, <<EnPassantAfter, "w", "KQkq", "-", "0", "4">>)
IllegalMove == Line(START, <<"Ng8">>)
Garbage == <<"garbage">>
TwoArrows == Line(START, <<"e4">>) \o <<"->">> \o <<"Nf6">>
BadSource == Line(<<"8/8/8/8", "w", "-", "-", "0", "1">>, <<"e4">>)
PositionLine == <<"start", ":", "50.8,", "0.0">>
CommentMain == <<"#", "main", "line">>
CommentAlt == <<"#", "sharp">>

Title == <<"=", "London">>

Bodies ==
    { <<>>,
      <<RootE4, E4Nf6>>,
      <<RootE4, RootNf3, Nf3Nf6>>,
      <<RootNf3, LegacyBack>>,
      <<ViaNf3, ViaE4>>,
      <<CommentMain, RootE4, CommentAlt, RootE4, RootE4>>,
      <<CommentMain, IllegalMove, Garbage, TwoArrows, BadSource, PositionLine, RootNf3>> }

SessionFiles ==
    { [version |-> <<"v4.0">>, title |-> Title, body |-> b] : b \in Bodies }
    \cup { [version |-> <<"v3.0">>, title |-> Title, body |-> <<RootE4>>],
           [version |-> <<"4.0">>, title |-> Title, body |-> <<RootE4>>],
           [version |-> <<"v4.0">>, title |-> RootE4, body |-> <<RootNf3>>],
           [version |-> <<"v4.0">>, title |-> Null, body |-> <<>>] }

----------------------------------------------------------------------------
(* Handlers *)

\* getChildren(state)
RECURSIVE ChildrenOf(_, _, _)
ChildrenOf(nodes, edges, stateIndex) ==
    IF edges = <<>> THEN <<>>
    ELSE (IF Head(edges).from = stateIndex THEN <<At(nodes, Head(edges).to)>> ELSE <<>>)
         \o ChildrenOf(nodes, Tail(edges), stateIndex)

getChildren_newestFirst(state) ==
    LET stateIndex == MapGet(stateToIndex, state)
        RECURSIVE newestFirst(_)
        newestFirst(edges) ==
            IF edges = <<>> THEN <<>>
            ELSE newestFirst(Tail(edges))
                 \o (IF Head(edges).from = stateIndex
                     THEN <<At(graphNodes, Head(edges).to)>> ELSE <<>>)
    IN IF stateIndex = Undefined THEN <<>> ELSE newestFirst(graphEdges)

getChildren(state) ==
    LET stateIndex == MapGet(stateToIndex, state)
    IN IF stateIndex = Undefined THEN <<>>
       ELSE ChildrenOf(graphNodes, graphEdges, stateIndex)

getParent_latest(state) ==
    LET stateIndex == MapGet(stateToIndex, state)
        incoming == { i \in 1..Len(graphEdges) : graphEdges[i].to = stateIndex }
    IN IF stateIndex = Undefined \/ incoming = {} THEN Null
       ELSE LET last == CHOOSE i \in incoming : \A j \in incoming : i >= j
            IN At(graphNodes, graphEdges[last].from)

\* getParent(state); Null when there is none
getParent(state) ==
    LET stateIndex == MapGet(stateToIndex, state)
        incoming == { i \in 1..Len(graphEdges) : graphEdges[i].to = stateIndex }
    IN IF stateIndex = Undefined \/ incoming = {} THEN Null
       ELSE LET first == CHOOSE i \in incoming : \A j \in incoming : i <= j
            IN At(graphNodes, graphEdges[first].from)

\* globals at page load, after initCanvas (addNodeToGraph('start'), then a draw)
\* no export is awaiting a prompt
NoExport == [pc |-> "idle", content |-> Null]

InitGraph == drawGraph(addNodeToGraph(EmptyGraph, START).g)

Init ==
    /\ graphNodes = InitGraph.graphNodes
    /\ graphEdges = InitGraph.graphEdges
    /\ stateToIndex = InitGraph.stateToIndex
    /\ edgeMap = InitGraph.edgeMap
    /\ lastEdgeIndex = InitGraph.lastEdgeIndex
    /\ cachedDagrePositions = InitGraph.cachedDagrePositions
    /\ lastGraphStructure = InitGraph.lastGraphStructure
    /\ nodePositions = InitGraph.nodePositions
    /\ currentBoardState = START
    /\ loadedTitle = EmptyStr
    /\ moveHistory = <<START>>
    /\ historyIndex = 0
    /\ isNavigatingHistory = FALSE
    /\ gameFen = START_FEN
    /\ invalidCount = 0
    /\ lastOp = [op |-> "init"]
    /\ roundTrip = Idle
    /\ codecIn = START
    /\ codecOut = <<>>
    /\ exportJob = NoExport

LoadFile_keepHistory(file) ==
    /\ lastOp' = [op |-> "load", file |-> file]
    /\ roundTrip' = Idle
    /\ UNCHANGED <<isNavigatingHistory, codecVars, exportJob>>
    /\ IF ~HeaderOK(file)
       THEN UNCHANGED <<graphVars, historyVars, boardVars, loadedTitle, invalidCount>>
       ELSE LET parsed == ParseBody(file)
            IN /\ loadedTitle' = Part(file.title, 2, Len(file.title))
               /\ moveHistory' = moveHistory
               /\ historyIndex' = historyIndex
               /\ invalidCount' = parsed.invalidCount
               /\ gameFen' = START_FEN
               /\ currentBoardState' = START
               /\ SetGraph(drawGraph([parsed.g EXCEPT !.nodePositions = nodePositions]))

\* loadRoutesFromFile(fileContent)
LoadFile(file) ==
    /\ lastOp' = [op |-> "load", file |-> file]
    /\ roundTrip' = Idle
    /\ UNCHANGED <<isNavigatingHistory, codecVars, exportJob>>
    /\ IF ~HeaderOK(file)
       THEN UNCHANGED <<graphVars, historyVars, boardVars, loadedTitle, invalidCount>>
       ELSE LET parsed == ParseBody(file)
            IN /\ loadedTitle' = Part(file.title, 2, Len(file.title))
               /\ moveHistory' = <<START>>
               /\ historyIndex' = 0
               /\ invalidCount' = parsed.invalidCount
               /\ gameFen' = START_FEN
               /\ currentBoardState' = START
               /\ SetGraph(drawGraph([parsed.g EXCEPT !.nodePositions = nodePositions]))

\* a move dropped on the board in Edit mode: the oracle applies it, the edge
\* from the current node is upserted with the move and the source full key,
\* and the new position is visited
MakeMove(san) ==
    /\ san \in LegalMoves(gameFen)
    /\ historyIndex + 2 <= MaxHistory
    /\ LET resultFen == ApplyMove(gameFen, san)
           toState == boardToFEN(resultFen)
           g == addEdgeToGraph(G, currentBoardState, toState, EmptyStr, FALSE, <<san>>, gameFen)
       IN /\ Len(g.graphEdges) <= MaxEdges \/ Len(g.graphEdges) = Len(graphEdges)
          /\ SetGraph(g)
          /\ gameFen' = resultFen
          /\ currentBoardState' = toState
          /\ Visit(toState, TRUE)
          /\ lastOp' = [op |-> "move", from |-> currentBoardState, to |-> toState,
                        move |-> <<san>>, fullFEN |-> gameFen,
                        existed |-> <<NodeKey(currentBoardState), NodeKey(toState)>>
                                        \in EdgeKeys(graphNodes, graphEdges),
                        edgesBefore |-> Len(graphEdges)]
          /\ roundTrip' = IF roundTrip.moves > 0 /\ roundTrip.undos = 0
                          THEN [roundTrip EXCEPT !.moves = @ + 1]
                          ELSE [Idle EXCEPT !.moves = 1,
                                            !.base = EdgeKeys(graphNodes, graphEdges)]
    /\ UNCHANGED <<isNavigatingHistory, loadedTitle, invalidCount, codecVars, exportJob>>

\* undo(): step back in the history and prune the future of the node stepped to
Undo ==
    /\ historyIndex > 0
    /\ LET state == At(moveHistory, historyIndex - 1)
           g == removeFutureFromGraph(G, MapGet(stateToIndex, normalizeFEN(state)))
       IN /\ historyIndex' = historyIndex - 1
          /\ moveHistory' = moveHistory
          /\ gameFen' = stateToFEN(normalizeFEN(state))
          /\ currentBoardState' = normalizeFEN(state)
          /\ SetGraph(drawGraph(g))
          /\ lastOp' = [op |-> "undo", state |-> state, nodesBefore |-> graphNodes,
                        indexBefore |-> historyIndex, historyBefore |-> moveHistory]
    /\ roundTrip' =
           LET run == IF roundTrip.moves > 0 /\ roundTrip.undos < roundTrip.moves
                      THEN [roundTrip EXCEPT !.undos = @ + 1]
                      ELSE Idle
           IN IF roundTrip.back > 0 /\ roundTrip.forth = 0
              THEN [run EXCEPT !.back = roundTrip.back + 1, !.top = roundTrip.top]
              ELSE [run EXCEPT !.back = 1, !.forth = 0, !.top = historyIndex]
    /\ UNCHANGED <<isNavigatingHistory, loadedTitle, invalidCount, codecVars, exportJob>>

\* redo(): re-insert the edge to the next history entry and step forward
Redo ==
    /\ historyIndex < Len(moveHistory) - 1
    /\ LET fromState == At(moveHistory, historyIndex)
           toState == At(moveHistory, historyIndex + 1)
           g == addEdgeToGraph(G, fromState, toState, EmptyStr, FALSE, EmptyStr, EmptyStr)
       IN /\ Len(g.graphEdges) <= MaxEdges \/ Len(g.graphEdges) = Len(graphEdges)
          /\ historyIndex' = historyIndex + 1
          /\ moveHistory' = moveHistory
          /\ gameFen' = stateToFEN(normalizeFEN(toState))
          /\ currentBoardState' = normalizeFEN(toState)
          /\ SetGraph(drawGraph(g))
          /\ lastOp' = [op |-> "redo", from |-> fromState, to |-> toState,
                        existed |-> <<NodeKey(fromState), NodeKey(toState)>>
                                        \in EdgeKeys(graphNodes, graphEdges),
                        edgesBefore |-> Len(graphEdges)]
    /\ roundTrip' = IF roundTrip.forth < roundTrip.back
                    THEN [Idle EXCEPT !.back = roundTrip.back, !.forth = roundTrip.forth + 1,
                                      !.top = roundTrip.top]
                    ELSE Idle
    /\ UNCHANGED <<isNavigatingHistory, loadedTitle, invalidCount, codecVars, exportJob>>

SessionMoves == {"e4", "Nf3", "Ng1", "Nf6", "Ng8"}

Next ==
    \/ \E file \in SessionFiles : LoadFile(file)
    \/ \E san \in SessionMoves : MakeMove(san)
    \/ Undo
    \/ Redo

Spec == Init /\ [][Next]_vars

----------------------------------------------------------------------------
(* The loader alone, on every file of up to MaxLines body lines *)

LineSet ==
    { RootE4, ViaNf3, ViaE4, LegacyRootRoot, IllegalMove, CommentMain }

RECURSIVE BodiesUpTo(_)
BodiesUpTo(n) ==
    IF n = 0 THEN { <<>> }
    ELSE BodiesUpTo(n - 1)
         \cup { Append(b, l) : b \in { c \in BodiesUpTo(n - 1) : Len(c) = n - 1 }, l \in LineSet }

LoadFiles ==
    { [version |-> <<"v4.0">>, title |-> Title, body |-> b] : b \in BodiesUpTo(MaxLines) }
    \cup { [version |-> <<"v3.0">>, title |-> Title, body |-> <<RootE4>>],
           [version |-> <<"4.0">>, title |-> Title, body |-> <<RootE4>>],
           [version |-> <<"v4.0">>, title |-> RootE4, body |-> <<RootNf3>>] }

NextLoad == \E file \in LoadFiles : LoadFile(file)

SpecLoad == Init /\ [][NextLoad]_vars

----------------------------------------------------------------------------
(* The graph functions alone: addEdgeToGraph and removeFutureFromGraph      *)
(* called with every combination of a few keys and payloads                 *)

\* states handed over as the source and as the target of an edge
FromStates == { START, AfterE4 }
ToStates == { AfterE4, normalizeFEN(AfterE4Nf6) }

\* (annotation, move, fullFEN) arguments; '' also stands for an omitted one
Payloads ==
    { <<EmptyStr, EmptyStr, EmptyStr>>,
      <<<<"main", "line">>, <<"e4">>, START_FEN>>,
      <<<<"sharp">>, <<"Nf6">>, AfterE4>>,
      <<<<"sharp">>, EmptyStr, EmptyStr>>,
      <<EmptyStr, <<"Nf6">>, EmptyStr>>,
      <<EmptyStr, EmptyStr, AfterE4>> }

\* the stored edge between two states, Null when there is none
EdgeOf(g, fromState, toState) ==
    LET hits == { i \in 1..Len(g.graphEdges) :
                    /\ At(g.graphNodes, g.graphEdges[i].from) = NodeKey(fromState)
                    /\ At(g.graphNodes, g.graphEdges[i].to) = NodeKey(toState) }
    IN IF hits = {} THEN Null ELSE g.graphEdges[CHOOSE i \in hits : TRUE]

RECURSIVE Closure(_, _)
\* the BFS of removeFutureFromGraph: the indices reachable from a set over the edges
Closure(reached, edges) ==
    LET next == reached \cup { edges[i].to : i \in { k \in 1..Len(edges) : edges[k].from \in reached } }
    IN IF next = reached THEN reached ELSE Closure(next, edges)

\* every node of g can be reached from 'start' over the edges of g
Rooted(g) ==
    Closure({MapGet(g.stateToIndex, START)}, g.graphEdges) = 0..(Len(g.graphNodes) - 1)

CallAddEdge(fromState, toState, payload) ==
    LET g == addEdgeToGraph(G, fromState, toState, payload[1], FALSE, payload[2], payload[3])
    IN /\ Len(g.graphEdges) <= MaxApiEdges
       /\ SetGraph(g)
       /\ lastOp' = [op |-> "add", from |-> fromState, to |-> toState,
                     annotation |-> payload[1], move |-> payload[2], fullFEN |-> payload[3],
                     old |-> EdgeOf(G, fromState, toState),
                     edgesBefore |-> Len(graphEdges)]
       /\ UNCHANGED <<historyVars, boardVars, loadedTitle, isNavigatingHistory,
                      invalidCount, roundTrip, codecVars, exportJob>>

CallRemoveFuture(fromStateIndex) ==
    /\ SetGraph(removeFutureFromGraph(G, fromStateIndex))
    /\ lastOp' = [op |-> "prune", index |-> fromStateIndex, nodesBefore |-> graphNodes,
                  edgesBefore |-> graphEdges, rootedBefore |-> Rooted(G)]
    /\ UNCHANGED <<historyVars, boardVars, loadedTitle, isNavigatingHistory,
                   invalidCount, roundTrip, codecVars, exportJob>>

NextGraph ==
    \/ \E fromState \in FromStates, toState \in ToStates, payload \in Payloads :
           CallAddEdge(fromState, toState, payload)
    \/ \E fromStateIndex \in 0..(Len(graphNodes) - 1) : CallRemoveFuture(fromStateIndex)

SpecGraph == Init /\ [][NextGraph]_vars

----------------------------------------------------------------------------
(* The graph store under any sequence of addEdgeToGraph (payload omitted),  *)
(* removeFutureFromGraph and loadRoutesFromFile                             *)

StoreStates == { START, AfterE4, normalizeFEN(AfterE4Nf6) }

StoreFiles ==
    { [version |-> <<"v4.0">>, title |-> Title, body |-> <<>>],
      [version |-> <<"v4.0">>, title |-> Title, body |-> <<RootE4, E4Nf6>>],
      [version |-> <<"v3.0">>, title |-> Title, body |-> <<RootE4>>] }

\* addEdgeToGraph(fromState, toState): annotation, skipDraw, move and fullFEN omitted
CallAddEdgeBare(fromState, toState) ==
    LET g == addEdgeToGraph(G, fromState, toState, EmptyStr, FALSE, EmptyStr, EmptyStr)
    IN /\ Len(g.graphEdges) <= MaxStoreEdges \/ Len(g.graphEdges) = Len(graphEdges)
       /\ SetGraph(g)
       /\ lastOp' = [op |-> "add", from |-> fromState, to |-> toState,
                     annotation |-> EmptyStr, move |-> EmptyStr, fullFEN |-> EmptyStr,
                     old |-> EdgeOf(G, fromState, toState),
                     edgesBefore |-> Len(graphEdges)]
       /\ UNCHANGED <<historyVars, boardVars, loadedTitle, isNavigatingHistory,
                      invalidCount, roundTrip, codecVars, exportJob>>

NextStore ==
    \/ \E fromState \in StoreStates, toState \in ToStates : CallAddEdgeBare(fromState, toState)
    \/ \E fromStateIndex \in 0..(Len(graphNodes) - 1) : CallRemoveFuture(fromStateIndex)
    \/ \E file \in StoreFiles : LoadFile(file)

SpecStore == Init /\ [][NextStore]_vars

----------------------------------------------------------------------------
(* normalizeFEN alone, applied again and again to one key *)

CodecKeys ==
    { <<placement, turn, castling, ep, half, full>> :
          placement \in { START_PLACEMENT, PlacementOf(TRUE, FALSE, FALSE), "" },
          turn \in { "w", "b" }, castling \in { "KQkq", "-" },
          ep \in { "-", "e3" }, half \in { "0", "5" }, full \in { "1", "10" } }
    \cup { START, START_FEN, EmptyStr, <<"garbage">>,
           <<START_PLACEMENT, "w", "KQkq", "e3", "5">>,
           <<START_PLACEMENT, "w", "KQkq", "e3", "5", "10", "x">> }

InitCodec ==
    /\ graphNodes = InitGraph.graphNodes
    /\ graphEdges = InitGraph.graphEdges
    /\ stateToIndex = InitGraph.stateToIndex
    /\ edgeMap = InitGraph.edgeMap
    /\ lastEdgeIndex = InitGraph.lastEdgeIndex
    /\ cachedDagrePositions = InitGraph.cachedDagrePositions
    /\ lastGraphStructure = InitGraph.lastGraphStructure
    /\ nodePositions = InitGraph.nodePositions
    /\ currentBoardState = START
    /\ loadedTitle = EmptyStr
    /\ moveHistory = <<START>>
    /\ historyIndex = 0
    /\ isNavigatingHistory = FALSE
    /\ gameFen = START_FEN
    /\ invalidCount = 0
    /\ lastOp = [op |-> "init"]
    /\ roundTrip = Idle
    /\ codecIn \in CodecKeys
    /\ codecOut = <<>>
    /\ exportJob = NoExport

\* normalizeFEN of the key, then of each result
Normalize ==
    /\ Len(codecOut) < MaxApply
    /\ codecOut' = Append(codecOut, normalizeFEN(IF codecOut = <<>> THEN codecIn
                                                 ELSE codecOut[Len(codecOut)]))
    /\ UNCHANGED <<codecIn, graphVars, historyVars, boardVars, loadedTitle,
                   isNavigatingHistory, invalidCount, lastOp, roundTrip, exportJob>>

NextCodec == Normalize

SpecCodec == InitCodec /\ [][NextCodec]_vars

----------------------------------------------------------------------------
(* normalizeFEN and getFENKey applied to two keys *)

InitPair ==
    /\ graphNodes = InitGraph.graphNodes
    /\ graphEdges = InitGraph.graphEdges
    /\ stateToIndex = InitGraph.stateToIndex
    /\ edgeMap = InitGraph.edgeMap
    /\ lastEdgeIndex = InitGraph.lastEdgeIndex
    /\ cachedDagrePositions = InitGraph.cachedDagrePositions
    /\ lastGraphStructure = InitGraph.lastGraphStructure
    /\ nodePositions = InitGraph.nodePositions
    /\ currentBoardState = START
    /\ loadedTitle = EmptyStr
    /\ moveHistory = <<START>>
    /\ historyIndex = 0
    /\ isNavigatingHistory = FALSE
    /\ gameFen = START_FEN
    /\ invalidCount = 0
    /\ lastOp = [op |-> "init"]
    /\ roundTrip = Idle
    /\ codecIn \in CodecKeys \X CodecKeys
    /\ codecOut = <<>>
    /\ exportJob = NoExport

\* both keys through normalizeFEN and through getFENKey
NormalizePair ==
    /\ codecOut = <<>>
    /\ codecOut' = [normalized |-> <<normalizeFEN(codecIn[1]), normalizeFEN(codecIn[2])>>,
                    fenKey |-> <<getFENKey(codecIn[1]), getFENKey(codecIn[2])>>]
    /\ UNCHANGED <<codecIn, graphVars, historyVars, boardVars, loadedTitle,
                   invalidCount, lastOp, roundTrip, exportJob>>

NextPair == NormalizePair

SpecPair == InitPair /\ [][NextPair]_vars

----------------------------------------------------------------------------
(* The history stack: loadState called with any key and flag, between the   *)
(* index moves and the replay flag of undo and redo, and file loads         *)

VisitStates == { START, normalizeFEN(AfterE4), AfterE4Nf6 }

\* loadState(state, addToHistoryFlag)
CallLoadState(state, addToHistoryFlag) ==
    /\ Len(moveHistory) <= MaxHistory \/ ~addToHistoryFlag \/ isNavigatingHistory
    /\ loadState(G, state, addToHistoryFlag)
    /\ lastOp' = [op |-> "visit", state |-> state, flag |-> addToHistoryFlag,
                  replaying |-> isNavigatingHistory,
                  historyBefore |-> moveHistory, indexBefore |-> historyIndex]
    /\ UNCHANGED <<isNavigatingHistory, loadedTitle, invalidCount, roundTrip, codecVars, exportJob>>

\* undo and redo start a replay: the flag is raised and the index moved by one
BeginReplay(step) ==
    /\ ~isNavigatingHistory
    /\ historyIndex + step \in 0..(Len(moveHistory) - 1)
    /\ isNavigatingHistory' = TRUE
    /\ historyIndex' = historyIndex + step
    /\ lastOp' = [op |-> "replay", step |-> step]
    /\ UNCHANGED <<moveHistory, graphVars, boardVars, loadedTitle, invalidCount,
                   roundTrip, codecVars, exportJob>>

\* and end it
EndReplay ==
    /\ isNavigatingHistory
    /\ isNavigatingHistory' = FALSE
    /\ lastOp' = [op |-> "replayed"]
    /\ UNCHANGED <<moveHistory, historyIndex, graphVars, boardVars, loadedTitle,
                   invalidCount, roundTrip, codecVars, exportJob>>

NextVisit ==
    \/ \E state \in VisitStates, addToHistoryFlag \in BOOLEAN :
           CallLoadState(state, addToHistoryFlag)
    \/ \E step \in {-1, 1} : BeginReplay(step)
    \/ EndReplay
    \/ \E file \in StoreFiles : LoadFile(file)

SpecVisit == Init /\ [][NextVisit]_vars

----------------------------------------------------------------------------
(* Path enumeration over loaded graphs *)

\* no node of g is reached from itself
Acyclic(g) ==
    \A n \in 0..(Len(g.graphNodes) - 1) :
        n \notin Closure({ g.graphEdges[i].to :
                             i \in { k \in 1..Len(g.graphEdges) : g.graphEdges[k].from = n } },
                         g.graphEdges)

\* the indices of the edges going out of a node, in insertion order
RECURSIVE OutEdges(_, _, _)
OutEdges(g, node, i) ==
    IF i > Len(g.graphEdges) THEN <<>>
    ELSE (IF g.graphEdges[i].from = node THEN <<i>> ELSE <<>>) \o OutEdges(g, node, i + 1)

\* one step of a path: the node reached and the full key rebuilt by applying
\* the edge's move to the edge's source full key
PathStep(g, e) ==
    [normalizedKey |-> At(g.graphNodes, e.to), fullKey |-> MoveResult(e.fullFEN, e.move)]

RECURSIVE PathsFrom_firstChildOnly(_, _, _)
PathsFrom_firstChildOnly(g, node, path) ==
    LET out == OutEdges(g, node, 1)
    IN IF out = <<>> THEN (IF path = <<>> THEN <<>> ELSE <<path>>)
       ELSE PathsFrom_firstChildOnly(g, g.graphEdges[out[1]].to,
                                     Append(path, PathStep(g, g.graphEdges[out[1]])))

RECURSIVE PathsFrom_rootOnlyOnePath(_, _, _)
PathsFrom_rootOnlyOnePath(g, node, path) ==
    LET out == OutEdges(g, node, 1)
        RECURSIVE Over(_)
        Over(k) == IF k > Len(out) THEN <<>>
                   ELSE PathsFrom_rootOnlyOnePath(g, g.graphEdges[out[k]].to,
                                                  Append(path, PathStep(g, g.graphEdges[out[k]])))
                        \o Over(k + 1)
    IN IF out = <<>> THEN <<path>> ELSE Over(1)

\* depth-first search: a walk is emitted at a node with no outgoing edge,
\* unless that node is the root the search started at
RECURSIVE PathsFrom(_, _, _)
PathsFrom(g, node, path) ==
    LET out == OutEdges(g, node, 1)
        RECURSIVE Over(_)
        Over(k) == IF k > Len(out) THEN <<>>
                   ELSE PathsFrom(g, g.graphEdges[out[k]].to,
                                  Append(path, PathStep(g, g.graphEdges[out[k]])))
                        \o Over(k + 1)
    IN IF out = <<>> THEN (IF path = <<>> THEN <<>> ELSE <<path>>)
       ELSE Over(1)

enumeratePaths(g) == PathsFrom(g, MapGet(g.stateToIndex, START), <<>>)

\* the lines of the two move orders 1.e4 Nf6 2.Nf3 and 1.Nf3 Nf6 2.e4
PracticeLines == <<RootE4, E4Nf6, ViaNf3, RootNf3, Nf3Nf6, ViaE4>>

RECURSIVE Pick(_, _)
\* the lines of a sequence at the positions of a set, in order
Pick(lines, chosen) ==
    IF lines = <<>> THEN <<>>
    ELSE (IF Len(lines) \in chosen THEN Pick(SubSeq(lines, 1, Len(lines) - 1), chosen)
                                         \o <<lines[Len(lines)]>>
          ELSE Pick(SubSeq(lines, 1, Len(lines) - 1), chosen))

\* 1.Nf3 Nf6 2.Ng1 Ng8: four moves that lead back to the initial position
KnightsOutAndBack ==
    <<RootNf3, Nf3Nf6, Line(AfterNf3Nf6, <<"Ng1">>),
      Line(ApplyMove(AfterNf3Nf6, "Ng1"), <<"Ng8">>)>>

PracticeFiles ==
    { [version |-> <<"v4.0">>, title |-> Title, body |-> Pick(PracticeLines, chosen)] :
          chosen \in SUBSET (1..Len(PracticeLines)) }
    \cup { [version |-> <<"v4.0">>, title |-> Title, body |-> <<RootNf3, LegacyBack>>],
           [version |-> <<"v4.0">>, title |-> Title, body |-> KnightsOutAndBack] }

\* exportToPGN: moves[state], the targets of the edges going out of a key
PGNMoves(g, state) ==
    LET out == OutEdges(g, MapGet(g.stateToIndex, state), 1)
    IN [k \in 1..Len(out) |-> At(g.graphNodes, g.graphEdges[out[k]].to)]

RECURSIVE generatePGNMoveText(_, _, _)
\* whether generatePGNMoveText(state) returns with a call stack of the given
\* depth left: it returns at a key without moves and otherwise calls itself
\* for the main move and for every variation
generatePGNMoveText(g, state, stack) ==
    LET currentMoves == PGNMoves(g, state)
    IN IF currentMoves = <<>> THEN TRUE
       ELSE IF stack = 0 THEN FALSE
       ELSE \A i \in 1..Len(currentMoves) :
                generatePGNMoveText(g, currentMoves[i], stack - 1)

\* exportToPGN() up to the move text; a walk that does not repeat a node is
\* no longer than the node list, so a deeper recursion never returns
ExportToPGN ==
    /\ Len(graphNodes) > 0
    /\ lastOp' = [op |-> "pgn",
                  returned |-> generatePGNMoveText(G, START, Len(graphNodes) + 1)]
    /\ UNCHANGED <<graphVars, historyVars, boardVars, loadedTitle, invalidCount,
                   roundTrip, codecVars, exportJob>>

\* practice starts: the paths of the graph are enumerated
EnumeratePaths ==
    /\ Acyclic(G)
    /\ lastOp' = [op |-> "enumerate", paths |-> enumeratePaths(G)]
    /\ UNCHANGED <<graphVars, historyVars, boardVars, loadedTitle, invalidCount,
                   roundTrip, codecVars, exportJob>>

NextPractice ==
    \/ \E file \in PracticeFiles : LoadFile(file)
    \/ EnumeratePaths
    \/ ExportToPGN

SpecPractice == Init /\ [][NextPractice]_vars

----------------------------------------------------------------------------
(* The parse loop alone: files whose bodies mix comment lines, transitions, *)
(* invalid transitions, position lines and lines of neither kind            *)

BadLegacyTarget == Line(START, <<"8/8/8/8", "w", "-", "-", "0", "1">>)
BadPositionCoords == <<"start", ":", "abc,", "0.0">>
BadPositionKey == <<"8/8/8/8", ":", "50.8,", "0.0">>

\* the lines tried in front of the first transition
OddLines ==
    { Garbage, IllegalMove, TwoArrows, BadSource, BadLegacyTarget,
      PositionLine, BadPositionCoords, BadPositionKey, EmptyStr }

Maybe(line) == { <<>>, <<line>> }

\* [comment] [odd line] [comment] [start -> e4] [odd line] [... -> Nf6]
ParseBodies ==
    { c1 \o x \o c2 \o t1 \o y \o t2 :
        c1 \in Maybe(CommentMain),
        x \in {<<>>} \cup { <<l>> : l \in OddLines },
        c2 \in Maybe(CommentAlt),
        t1 \in Maybe(RootE4),
        y \in { <<>>, <<Garbage>>, <<IllegalMove>> },
        t2 \in Maybe(E4Nf6) }

ParseFiles ==
    { [version |-> <<"v4.0">>, title |-> Title, body |-> b] : b \in ParseBodies }

NextParse == \E file \in ParseFiles : LoadFile(file)

SpecParse == Init /\ [][NextParse]_vars

----------------------------------------------------------------------------
(* exportAllStates: the text it builds, and its two awaited prompts, during *)
(* which the other handlers of the page may run                             *)

\* the SAN of a legal move from fromState that lands on toState, else '???'
getMoveNotation(fromState, toState) ==
    LET fromFen == stateToFEN(fromState)
        toFen == stateToFEN(toState)
        targetKey == getFENKey(toFen)
        hits == { san \in LegalMoves(fromFen) :
                    getFENKey(ApplyMove(fromFen, san)) = targetKey }
    IN IF hits = {} THEN <<"???">> ELSE <<CHOOSE san \in hits : TRUE>>

ExportEdge_keyAsSource(g, edge) ==
    LET fromState == At(g.graphNodes, edge.from)
        toState == At(g.graphNodes, edge.to)
        moveNotation == IF edge.move # EmptyStr THEN edge.move
                        ELSE getMoveNotation(fromState, toState)
    IN (IF edge.annotation # EmptyStr THEN << <<"#">> \o edge.annotation >> ELSE <<>>)
       \o <<Line(fromState, moveNotation)>>

\* the lines written for one edge: its annotation as a comment line, then
\* 'source full key -> move'
ExportEdge(g, edge) ==
    LET fromState == At(g.graphNodes, edge.from)
        toState == At(g.graphNodes, edge.to)
        moveNotation == IF edge.move # EmptyStr THEN edge.move
                        ELSE getMoveNotation(fromState, toState)
        fromStateForExport == IF edge.fullFEN # EmptyStr THEN edge.fullFEN ELSE fromState
    IN (IF edge.annotation # EmptyStr THEN << <<"#">> \o edge.annotation >> ELSE <<>>)
       \o <<Line(fromStateForExport, moveNotation)>>

RECURSIVE TransitionLines(_, _)
\* transitionLines for the edges i, i+1, ...
TransitionLines(g, i) ==
    IF i > Len(g.graphEdges) THEN <<>>
    ELSE ExportEdge(g, g.graphEdges[i]) \o TransitionLines(g, i + 1)

\* content: 'v4.0', '= title', then the transition lines (no position lines
\* in Edit mode)
ExportContent(g, title) ==
    [version |-> <<"v4.0">>, title |-> <<"=">> \o title, body |-> TransitionLines(g, 1)]

\* what the user answers to a prompt: Null is Cancel, '' an emptied field
TitleAnswers == { Null, EmptyStr, <<"London">> }
FilenameAnswers == { Null, EmptyStr, <<"london">> }

\* exportAllStates up to its first await: the zero-edge check, then the
\* title prompt
ExportBegin ==
    /\ exportJob.pc = "idle"
    /\ IF Len(graphEdges) = 0
       THEN /\ lastOp' = [op |-> "export", report |-> "No Routes to Export"]
            /\ exportJob' = exportJob
       ELSE /\ lastOp' = [op |-> "export", report |-> "Export Opening"]
            /\ exportJob' = [pc |-> "title", content |-> Null]
    /\ UNCHANGED <<graphVars, historyVars, boardVars, loadedTitle, invalidCount,
                   roundTrip, codecVars>>

\* the title prompt resolves: the content is built from the graph as it is now
ExportTitle(title) ==
    /\ exportJob.pc = "title"
    /\ IF title = Null
       THEN /\ exportJob' = NoExport
            /\ lastOp' = [op |-> "export", report |-> "cancelled"]
       ELSE IF title = EmptyStr
       THEN /\ exportJob' = NoExport
            /\ lastOp' = [op |-> "export", report |-> "Title Required"]
       ELSE /\ exportJob' = [pc |-> "filename", content |-> ExportContent(G, title)]
            /\ lastOp' = [op |-> "export", report |-> "Save File"]
    /\ UNCHANGED <<graphVars, historyVars, boardVars, loadedTitle, invalidCount,
                   roundTrip, codecVars>>

\* the filename prompt resolves: the content is written as a download
ExportFilename(filename) ==
    /\ exportJob.pc = "filename"
    /\ exportJob' = NoExport
    /\ IF filename = Null
       THEN lastOp' = [op |-> "export", report |-> "cancelled"]
       ELSE IF filename = EmptyStr
       THEN lastOp' = [op |-> "export", report |-> "Filename Required"]
       ELSE lastOp' = [op |-> "write", content |-> exportJob.content]
    /\ UNCHANGED <<graphVars, historyVars, boardVars, loadedTitle, invalidCount,
                   roundTrip, codecVars>>

\* files loaded in an export session: no transition, a line that does not
\* start at the root, an annotated line from the root and its continuation
ExportFiles ==
    { [version |-> <<"v4.0">>, title |-> Title, body |-> b] :
        b \in { <<>>, <<LegacyEnPassant>>,
                <<CommentMain, RootE4, CommentAlt, E4Nf6>> } }

\* moves made in a row in an export session
MaxExportMoves == 2

NextExport ==
    \/ \E san \in SessionMoves : historyIndex < MaxExportMoves /\ MakeMove(san)
    \/ Undo
    \/ Redo
    \/ \E file \in ExportFiles : LoadFile(file)
    \/ ExportBegin
    \/ \E title \in TitleAnswers : ExportTitle(title)
    \/ \E filename \in FilenameAnswers : ExportFilename(filename)

SpecExport == Init /\ [][NextExport]_vars

----------------------------------------------------------------------------
(* The layout cache: addEdgeToGraph with and without skipDraw,              *)
(* removeFutureFromGraph, loadRoutesFromFile and drawGraph                  *)

\* edges a drawing session holds at most
MaxDrawEdges == 3

DrawFromStates == { START, AfterE4 }
DrawToStates == { AfterE4, normalizeFEN(AfterE4Nf6), normalizeFEN(AfterNf3) }

\* a file that starts away from the root
DrawFiles == { [version |-> <<"v4.0">>, title |-> Title, body |-> <<E4Nf6>>] }

\* addEdgeToGraph(fromState, toState, undefined, skipDraw)
CallAddEdgeDraw(fromState, toState, skipDraw) ==
    LET g == addEdgeToGraph(G, fromState, toState, EmptyStr, skipDraw, EmptyStr, EmptyStr)
    IN /\ Len(g.graphEdges) <= MaxDrawEdges \/ Len(g.graphEdges) = Len(graphEdges)
       /\ SetGraph(g)
       /\ lastOp' = [op |-> "add", drew |-> ~skipDraw]
       /\ UNCHANGED <<historyVars, boardVars, loadedTitle, invalidCount, roundTrip,
                      codecVars, exportJob>>

\* removeFutureFromGraph(fromStateIndex), which ends with drawGraph()
CallPruneDraw(fromStateIndex) ==
    /\ SetGraph(removeFutureFromGraph(G, fromStateIndex))
    /\ lastOp' = [op |-> "prune", drew |-> TRUE]
    /\ UNCHANGED <<historyVars, boardVars, loadedTitle, invalidCount, roundTrip,
                   codecVars, exportJob>>

\* drawGraph()
CallDrawGraph ==
    /\ SetGraph(drawGraph(G))
    /\ lastOp' = [op |-> "draw", drew |-> TRUE]
    /\ UNCHANGED <<historyVars, boardVars, loadedTitle, invalidCount, roundTrip,
                   codecVars, exportJob>>

NextDraw ==
    \/ \E fromState \in DrawFromStates, toState \in DrawToStates, skipDraw \in BOOLEAN :
           fromState # toState /\ CallAddEdgeDraw(fromState, toState, skipDraw)
    \/ \E fromStateIndex \in 0..(Len(graphNodes) - 1) : CallPruneDraw(fromStateIndex)
    \/ CallDrawGraph
    \/ \E file \in DrawFiles : LoadFile(file)

SpecDraw == Init /\ [][NextDraw]_vars

----------------------------------------------------------------------------
(* Properties.  The definitions of this section that are not the reading   *)
(* of a condition of the code are vocabulary of the properties only.        *)

Nodes == { graphNodes[i] : i \in 1..Len(graphNodes) }
IndexOf(nodes, key) == CHOOSE i \in 0..(Len(nodes) - 1) : At(nodes, i) = key

\* C1: after removeFutureFromGraph(X), called on a graph whose nodes are all
\* reachable from 'start', every remaining node is reachable from 'start' over
\* the remaining edges, and 'start' remains
C1_PruneLeavesOnlyReachable ==
    lastOp.op = "prune" /\ lastOp.rootedBefore =>
        /\ START \in Nodes
        /\ Rooted(G)

\* C2: at most one edge per ordered (source node, target node) pair; an
\* addEdgeToGraph over a pair that already has an edge leaves the number of
\* edges unchanged
C2_NoDuplicateEdges ==
    /\ \A i, j \in 1..Len(graphEdges) :
           i # j => <<At(graphNodes, graphEdges[i].from), At(graphNodes, graphEdges[i].to)>>
                    # <<At(graphNodes, graphEdges[j].from), At(graphNodes, graphEdges[j].to)>>
    /\ lastOp.op = "add" /\ lastOp.old # Null => Len(graphEdges) = lastOp.edgesBefore

\* addEdgeToGraph has been called on a pair that had an edge, beside another edge
C2_Witness ==
    /\ lastOp.op = "add"
    /\ lastOp.old # Null
    /\ Len(graphEdges) >= 2

\* placement, turn and castling rights of a node key or a full key
LogicalPosition(key) ==
    IF key = START THEN SubSeq(START_FEN, 1, 3)
    ELSE IF Len(key) >= 3 THEN SubSeq(key, 1, 3) ELSE key

\* the source key of a 'state -> move' line and the full key the move leads to
\* (Null when the line is not a move line the oracle accepts)
LineSource(line) == Part(line, 1, (CHOOSE i \in ArrowPositions(line) : TRUE) - 1)
LineResult(line) ==
    IF Cardinality(ArrowPositions(line)) = 1 /\ validateState(LineSource(line))
    THEN MoveResult(stateToFEN(LineSource(line)),
                    Part(line, (CHOOSE i \in ArrowPositions(line) : TRUE) + 1, Len(line)))
    ELSE Null

\* the edges leading from the node of one logical position to the node of another
EdgesBetween(a, b) ==
    { i \in 1..Len(graphEdges) :
        /\ LogicalPosition(At(graphNodes, graphEdges[i].from)) = a
        /\ LogicalPosition(At(graphNodes, graphEdges[i].to)) = b }

\* pairs of lines of the loaded file that reach one logical position from two
\* different sources with full keys differing in en passant or move counters
TranspositionPairs ==
    IF lastOp.op = "load" /\ HeaderOK(lastOp.file)
    THEN LET body == lastOp.file.body
         IN { p \in (1..Len(body)) \X (1..Len(body)) :
                LET ri == LineResult(body[p[1]])
                    rj == LineResult(body[p[2]])
                IN /\ ri # Null /\ rj # Null
                   /\ LogicalPosition(LineSource(body[p[1]])) # LogicalPosition(LineSource(body[p[2]]))
                   /\ LogicalPosition(ri) = LogicalPosition(rj)
                   /\ <<ri[4], ri[5], ri[6]>> # <<rj[4], rj[5], rj[6]>> }
    ELSE {}

\* C3: two moves from different source nodes into positions equal in placement,
\* turn and castling rights but different in en passant or move counters give
\* exactly one node for the target, with exactly one edge into it from each of
\* the two sources
C3_TranspositionMerged ==
    \A p \in TranspositionPairs :
        LET body == lastOp.file.body
            target == LogicalPosition(LineResult(body[p[1]]))
        IN /\ Cardinality({ k \in 1..Len(graphNodes) : LogicalPosition(graphNodes[k]) = target }) = 1
           /\ Cardinality(EdgesBetween(LogicalPosition(LineSource(body[p[1]])), target)) = 1
           /\ Cardinality(EdgesBetween(LogicalPosition(LineSource(body[p[2]])), target)) = 1
           /\ Cardinality({ i \in 1..Len(graphEdges) :
                              LogicalPosition(At(graphNodes, graphEdges[i].to)) = target }) >= 2

C3_Witness ==
    /\ TranspositionPairs # {}
    /\ \E i \in 1..Len(graphEdges) : graphEdges[i].fullFEN[4] # "-" \/ graphEdges[i].fullFEN[5] # "0"

\* C4: after k moves followed by k undos the edge set, as (source key, target
\* key) pairs, equals the edge set before the moves
C4_UndoRoundTrip ==
    roundTrip.moves > 0 /\ roundTrip.undos = roundTrip.moves
        => EdgeKeys(graphNodes, graphEdges) = roundTrip.base

\* C5: the root node 'start' is present in graphNodes and in stateToIndex
C5_RootAlwaysPresent ==
    /\ START \in Nodes
    /\ START \in DOMAIN stateToIndex

\* C6: no edge has the root 'start' as both source and target
C6_NoRootSelfLoop ==
    \A i \in 1..Len(graphEdges) :
        ~(At(graphNodes, graphEdges[i].from) = START /\ At(graphNodes, graphEdges[i].to) = START)

\* C7: the endpoints of every edge are valid indices of graphNodes
C7_EdgeEndpointsValid ==
    \A i \in 1..Len(graphEdges) :
        /\ graphEdges[i].from \in 0..(Len(graphNodes) - 1)
        /\ graphEdges[i].to \in 0..(Len(graphNodes) - 1)

\* a prune removed a node and an edge that survived had an endpoint shifted
C7_Witness ==
    /\ lastOp.op = "prune"
    /\ Len(graphNodes) < Len(lastOp.nodesBefore)
    /\ \E i \in 1..Len(graphEdges) :
           IndexOf(lastOp.nodesBefore, At(graphNodes, graphEdges[i].to)) # graphEdges[i].to

\* keys handed to addNodeToGraph: node keys and full keys with en-passant
\* targets and move counters
ProbeKeys ==
    { START, START_FEN, AfterE4, AfterNf3, AfterE4Nf6, AfterNf3Nf6,
      ApplyMove(AfterE4Nf6, "Nf3"), ApplyMove(AfterNf3Nf6, "e4"),
      <<START_PLACEMENT, "w", "KQkq", "-", "2", "2">>, <<"garbage">> }

\* C8: graphNodes holds no key twice, stateToIndex is exactly the map from each
\* key of graphNodes to its position, and addNodeToGraph of a key whose
\* normalized form is already a node returns that node's index and adds nothing
C8_NodeIndexExact ==
    /\ \A i, j \in 1..Len(graphNodes) : i # j => graphNodes[i] # graphNodes[j]
    /\ DOMAIN stateToIndex = Nodes
    /\ \A i \in 1..Len(graphNodes) : stateToIndex[graphNodes[i]] = i - 1
    /\ \A k \in ProbeKeys :
           normalizeFEN(k) \in Nodes
               => addNodeToGraph(G, k) = [g |-> G, index |-> IndexOf(graphNodes, normalizeFEN(k))]

\* a prune removed a node before a surviving one, and a full key that is not
\* its own normalized form has its node in the graph
C8_Witness ==
    /\ lastOp.op = "prune"
    /\ \E i \in 1..Len(graphNodes) : IndexOf(lastOp.nodesBefore, graphNodes[i]) # i - 1
    /\ \E k \in ProbeKeys : k # normalizeFEN(k) /\ normalizeFEN(k) \in Nodes

\* C9: addEdgeToGraph on a pair that has an edge overwrites each of annotation,
\* move and fullFEN with the new value when that is non-empty and leaves the
\* stored value when it is empty; no edge is added
C9_UpsertOverwritesNonEmpty ==
    lastOp.op = "add" /\ lastOp.old # Null =>
        LET e == EdgeOf(G, lastOp.from, lastOp.to)
        IN /\ Len(graphEdges) = lastOp.edgesBefore
           /\ e # Null
           /\ e.annotation = (IF lastOp.annotation = EmptyStr THEN lastOp.old.annotation
                              ELSE lastOp.annotation)
           /\ e.move = (IF lastOp.move = EmptyStr THEN lastOp.old.move ELSE lastOp.move)
           /\ e.fullFEN = (IF lastOp.fullFEN = EmptyStr THEN lastOp.old.fullFEN
                           ELSE lastOp.fullFEN)

\* an upsert on an existing edge replaced a stored annotation by a different
\* one and, its move and fullFEN arguments being empty, kept those two
C9_Witness ==
    /\ lastOp.op = "add" /\ lastOp.old # Null
    /\ lastOp.annotation # EmptyStr /\ lastOp.old.annotation \notin {EmptyStr, lastOp.annotation}
    /\ lastOp.move = EmptyStr /\ lastOp.old.move # EmptyStr
    /\ lastOp.fullFEN = EmptyStr /\ lastOp.old.fullFEN # EmptyStr

\* C10: normalizeFEN(normalizeFEN(k)) = normalizeFEN(k) for every key k, and a
\* six-field key with en passant '-', halfmove 0 and fullmove 1 is returned
\* unchanged
C10_NormalizeIdempotent ==
    /\ Len(codecOut) >= 2 => codecOut[2] = codecOut[1]
    /\ (Len(codecOut) >= 1 /\ Len(codecIn) = 6
            /\ codecIn[4] = "-" /\ codecIn[5] = "0" /\ codecIn[6] = "1")
           => codecOut[1] = codecIn

\* a key with an en-passant target and counters has been normalized twice
C10_Witness ==
    /\ Len(codecOut) >= 2
    /\ Len(codecIn) = 6 /\ codecIn[4] = "e3" /\ codecIn[5] = "5" /\ codecIn[6] = "10"
    /\ codecOut[1] # codecIn

\* both keys of the pair have been through the codec
PairDone == codecOut # <<>>
SixFieldPair == Len(codecIn[1]) = 6 /\ Len(codecIn[2]) = 6

\* C11: two six-field keys equal in placement, turn and castling rights have
\* the same normalizeFEN result, whatever their en-passant targets and
\* counters; the result has en passant '-', halfmove '0' and fullmove '1'
C11_SameLogicalSameNormal ==
    (PairDone /\ SixFieldPair /\ SubSeq(codecIn[1], 1, 3) = SubSeq(codecIn[2], 1, 3)) =>
        /\ codecOut.normalized[1] = codecOut.normalized[2]
        /\ \A k \in 1..2 : /\ codecOut.normalized[k][4] = "-"
                           /\ codecOut.normalized[k][5] = "0"
                           /\ codecOut.normalized[k][6] = "1"

\* two keys of one position that differ in en passant, halfmove and fullmove
C11_Witness ==
    /\ PairDone /\ SixFieldPair
    /\ SubSeq(codecIn[1], 1, 3) = SubSeq(codecIn[2], 1, 3)
    /\ \A f \in 4..6 : codecIn[1][f] # codecIn[2][f]

\* C12: two six-field keys that differ in placement, turn or castling rights
\* have different normalizeFEN results, and normalizeFEN leaves the first
\* three fields of a six-field key as they are
C12_DifferentLogicalDifferentNormal ==
    (PairDone /\ SixFieldPair) =>
        /\ SubSeq(codecIn[1], 1, 3) # SubSeq(codecIn[2], 1, 3)
               => codecOut.normalized[1] # codecOut.normalized[2]
        /\ \A k \in 1..2 : SubSeq(codecOut.normalized[k], 1, 3) = SubSeq(codecIn[k], 1, 3)

\* two keys that differ in castling rights only
C12_Witness ==
    /\ PairDone /\ SixFieldPair
    /\ codecIn[1][3] # codecIn[2][3]
    /\ \A f \in {1, 2, 4, 5, 6} : codecIn[1][f] = codecIn[2][f]

\* C13: normalizeFEN returns 'start' for 'start' and returns a key that does
\* not have exactly six fields as it is
C13_PassThrough ==
    Len(codecOut) >= 1 =>
        /\ codecIn = START => codecOut[1] = START
        /\ Len(codecIn) # 6 => codecOut[1] = codecIn

\* a key of seven fields, with an en-passant target, has been normalized
C13_Witness ==
    /\ Len(codecOut) >= 1
    /\ Len(codecIn) = 7
    /\ codecIn[4] = "e3"

C15_VisitTruncatesAndAppends ==
    /\ (lastOp.op = "visit" /\ lastOp.flag) =>
           IF lastOp.replaying
           THEN moveHistory = lastOp.historyBefore /\ historyIndex = lastOp.indexBefore
           ELSE /\ moveHistory = Append(SubSeq(lastOp.historyBefore, 1, lastOp.indexBefore + 1),
                                        lastOp.state)
                /\ historyIndex = Len(moveHistory) - 1
    /\ historyIndex \in 0..(Len(moveHistory) - 1)
    /\ moveHistory[1] = START

\* a visit away from the end of the history cut entries off
C15_Witness ==
    /\ lastOp.op = "visit" /\ lastOp.flag /\ ~lastOp.replaying
    /\ lastOp.indexBefore + 1 < Len(lastOp.historyBefore)
    /\ lastOp.indexBefore > 0

\* C16: undo runs only with historyIndex > 0; it lowers historyIndex by one,
\* leaves the entries of moveHistory as they are, and leaves no edge going out
\* of the node at the new index
C16_UndoStepsBackAndPrunes ==
    lastOp.op = "undo" =>
        /\ lastOp.indexBefore > 0
        /\ historyIndex = lastOp.indexBefore - 1
        /\ moveHistory = lastOp.historyBefore
        /\ \A i \in 1..Len(graphEdges) :
               At(graphNodes, graphEdges[i].from) # NodeKey(At(moveHistory, historyIndex))

\* an undo from the second move back to the first pruned a node away
C16_Witness ==
    /\ lastOp.op = "undo"
    /\ historyIndex = 1
    /\ Len(graphNodes) < Len(lastOp.nodesBefore)

\* C17: after k undos followed by k redos historyIndex is back at its value
\* before the undos, and the graph has an edge from moveHistory[j] to
\* moveHistory[j+1] for every step j that was undone
C17_RedoRestoresPath ==
    (roundTrip.back > 0 /\ roundTrip.forth = roundTrip.back) =>
        /\ historyIndex = roundTrip.top
        /\ \A j \in (roundTrip.top - roundTrip.back)..(roundTrip.top - 1) :
               <<NodeKey(At(moveHistory, j)), NodeKey(At(moveHistory, j + 1))>>
                   \in EdgeKeys(graphNodes, graphEdges)

\* two undos, then two redos
C17_Witness ==
    /\ roundTrip.back = 2 /\ roundTrip.forth = 2
    /\ lastOp.op = "redo" /\ ~lastOp.existed

\* the stored edge of the pruned graph as (source key, target key, payload)
KeyedEdge(nodes, e) ==
    [from |-> At(nodes, e.from), to |-> At(nodes, e.to),
     move |-> e.move, fullFEN |-> e.fullFEN, annotation |-> e.annotation]

TerminalNodes ==
    { n \in 0..(Len(graphNodes) - 1) : \A i \in 1..Len(graphEdges) : graphEdges[i].from # n }
RootToTerminalWalks ==
    UNION { { w \in [1..n -> 1..Len(graphEdges)] :
                /\ graphEdges[w[1]].from = MapGet(stateToIndex, START)
                /\ \A k \in 1..(n - 1) : graphEdges[w[k]].to = graphEdges[w[k + 1]].from
                /\ graphEdges[w[n]].to \in TerminalNodes } :
            n \in 1..(Len(graphNodes) - 1) }
\* a walk as the keys of the nodes it reaches, a path as the keys of its steps
WalkKeys(w) == [k \in 1..Len(w) |-> At(graphNodes, graphEdges[w[k]].to)]
PathKeys(path) == [k \in 1..Len(path) |-> path[k].normalizedKey]

\* C19: on an acyclic graph enumeratePaths returns the walks from 'start' to
\* the nodes with no outgoing edge, each walk exactly once: as many paths as
\* there are such walks, whatever the number of such nodes
C19_PathsAreRootToTerminalWalks ==
    lastOp.op = "enumerate" =>
        /\ { PathKeys(lastOp.paths[i]) : i \in 1..Len(lastOp.paths) }
               = { WalkKeys(w) : w \in RootToTerminalWalks }
        /\ Len(lastOp.paths) = Cardinality(RootToTerminalWalks)
        /\ \A i, j \in 1..Len(lastOp.paths) : i # j => lastOp.paths[i] # lastOp.paths[j]

\* two paths end in one node: the position after e4, Nf6, Nf3 in either order
C19_Witness ==
    /\ lastOp.op = "enumerate"
    /\ Len(lastOp.paths) = 2
    /\ Cardinality(TerminalNodes) = 1
    /\ PathKeys(lastOp.paths[1])[3] = PathKeys(lastOp.paths[2])[3]
    /\ PathKeys(lastOp.paths[1])[1] # PathKeys(lastOp.paths[2])[1]

\* C20: on the graph of the root alone, with no edge, enumeratePaths returns
\* no path
C20_RootOnlyNoPaths ==
    (lastOp.op = "enumerate" /\ graphNodes = <<START>> /\ graphEdges = <<>>)
        => lastOp.paths = <<>>

C20_Witness ==
    /\ lastOp.op = "enumerate"
    /\ graphNodes = <<START>>
    /\ graphEdges = <<>>
    /\ START \in DOMAIN stateToIndex

\* the first line is not exactly 'v4.0', or there is no second line, or the
\* second line does not start with '='
BadHeader(file) ==
    \/ file.version # <<"v4.0">>
    \/ file.title = Null
    \/ Head(file.title) # "="

\* C21: a load of a file with a bad header leaves graphNodes, graphEdges,
\* stateToIndex, edgeMap, moveHistory, historyIndex and loadedTitle as they were
C21_BadHeaderRejected ==
    [][(lastOp'.op = "load" /\ BadHeader(lastOp'.file))
           => UNCHANGED <<graphNodes, graphEdges, stateToIndex, edgeMap,
                          moveHistory, historyIndex, loadedTitle>>]_vars

\* a file with a bad header was handed over in the middle of a session, with
\* a loaded title, edges and a history in place
C21_Witness ==
    /\ lastOp.op = "load" /\ BadHeader(lastOp.file)
    /\ loadedTitle # EmptyStr
    /\ Len(graphEdges) >= 2
    /\ historyIndex > 0

\* the classification of a body line by the file format
IsComment(line) == line # EmptyStr /\ Head(line) = "#"
IsTransition(line) == ~IsComment(line) /\ ArrowPositions(line) # {}
ValidTransition(line) ==
    /\ IsTransition(line)
    /\ Cardinality(ArrowPositions(line)) = 1
    /\ LET p == CHOOSE i \in ArrowPositions(line) : TRUE
           fromState == Part(line, 1, p - 1)
           toPart == Part(line, p + 1, Len(line))
       IN /\ validateState(fromState)
          /\ IF (\E i \in 1..Len(toPart) : ContainsSlash(toPart[i])) \/ toPart = START
             THEN validateState(normalizeFEN(toPart))
             ELSE MoveResult(stateToFEN(fromState), toPart) # Null
InvalidTransition(line) == IsTransition(line) /\ ~ValidTransition(line)

IsBlank(line) == line = EmptyStr
\* the first of the comment lines directly before line i (i if there is
\* none); blank lines do not separate a comment from the line after it
CommentRunStart(body, i) ==
    CHOOSE j \in 1..i :
        /\ \A k \in j..(i - 1) : IsComment(body[k]) \/ IsBlank(body[k])
        /\ j > 1 => ~(IsComment(body[j - 1]) \/ IsBlank(body[j - 1]))
\* the body with line i and the comment lines directly before it deleted
WithoutLine(body, i) ==
    SubSeq(body, 1, CommentRunStart(body, i) - 1) \o SubSeq(body, i + 1, Len(body))

Loaded == lastOp.op = "load" /\ HeaderOK(lastOp.file)

\* C22: after a load, the graph equals the graph of the same file with an
\* invalid transition line and the comment lines directly before it deleted
C22_InvalidLineSkipped ==
    Loaded =>
        \A i \in 1..Len(lastOp.file.body) :
            InvalidTransition(lastOp.file.body[i]) =>
                LET other == ParseBody([lastOp.file EXCEPT !.body = WithoutLine(@, i)]).g
                IN /\ graphNodes = other.graphNodes
                   /\ graphEdges = other.graphEdges

\* coordinate fields for which parseFloat gives a number
NumericCoords == { "50.8,", "0.0" }
\* a position definition 'state : x, y' with numeric coordinates and a valid key
ValidPosition(line) ==
    /\ ~IsComment(line) /\ ~IsTransition(line)
    /\ \E p \in 1..Len(line) :
          /\ line[p] = ":"
          /\ \A q \in 1..(p - 1) : line[q] # ":"
          /\ Len(line) >= p + 2
          /\ line[p + 1] \in NumericCoords /\ line[p + 2] \in NumericCoords
          /\ validateState(Part(line, 1, p - 1))
\* the body lines the format has no reading for
MalformedLines(body) ==
    { i \in 1..Len(body) :
        /\ ~IsBlank(body[i]) /\ ~IsComment(body[i])
        /\ ~ValidTransition(body[i]) /\ ~ValidPosition(body[i]) }

\* C23: after a load, invalidCount is the number of non-blank, non-comment
\* body lines that are neither a valid transition nor a valid position line
C23_MalformedLinesCounted ==
    Loaded => invalidCount = Cardinality(MalformedLines(lastOp.file.body))

RECURSIVE CommentTexts(_, _, _)
\* the non-empty texts of the comment lines j .. i-1 of a body, in file order
CommentTexts(body, j, i) ==
    IF j >= i THEN <<>>
    ELSE (IF IsComment(body[j]) /\ Len(body[j]) > 1
          THEN <<Part(body[j], 2, Len(body[j]))>> ELSE <<>>)
         \o CommentTexts(body, j + 1, i)
\* the annotation the comment lines directly before line i spell
PrecedingAnnotation(body, i) == Join(CommentTexts(body, CommentRunStart(body, i), i))
\* the edge a valid 'state -> move' line stands for
LineEdge(line) ==
    EdgeOf(G, normalizeFEN(stateToFEN(LineSource(line))), boardToFEN(LineResult(line)))

\* C24: the annotation of a loaded transition is the texts of the comment
\* lines immediately before its line, joined with single spaces, and empty
\* when no comment line stands immediately before it
C24_AnnotationFromPrecedingComments ==
    Loaded =>
        \A i \in 1..Len(lastOp.file.body) :
            ValidTransition(lastOp.file.body[i]) =>
                /\ LineEdge(lastOp.file.body[i]) # Null
                /\ LineEdge(lastOp.file.body[i]).annotation
                       = PrecedingAnnotation(lastOp.file.body, i)

\* every edge carries a stored move token and the full key of its source
CurrentFormat(g) ==
    \A i \in 1..Len(g.graphEdges) :
        g.graphEdges[i].move # EmptyStr /\ g.graphEdges[i].fullFEN # EmptyStr
\* what the round trip compares: node keys, and edges by source key, target
\* key, move and annotation
NodeKeys(g) == { g.graphNodes[i] : i \in 1..Len(g.graphNodes) }
EdgeQuads(g) ==
    { [from |-> At(g.graphNodes, g.graphEdges[i].from),
       to |-> At(g.graphNodes, g.graphEdges[i].to),
       move |-> g.graphEdges[i].move,
       annotation |-> g.graphEdges[i].annotation] : i \in 1..Len(g.graphEdges) }
\* the graph loaded from the text exported for g
Reloaded(g) == ParseBody(ExportContent(g, <<"London">>)).g

\* C25: a graph whose edges all carry a move token and a source full key is
\* loaded back from its exported text with the same node keys and the same
\* edges by source key, target key, move and annotation
C25_ExportLoadRoundTrip ==
    (Len(graphEdges) > 0 /\ CurrentFormat(G)) =>
        /\ NodeKeys(Reloaded(G)) = NodeKeys(G)
        /\ EdgeQuads(Reloaded(G)) = EdgeQuads(G)

\* C26: an export started on zero edges reports nothing-to-export and awaits
\* no prompt, and no file is written with a header and zero transition lines
C26_NoEmptyExport ==
    /\ (lastOp.op = "export" /\ lastOp.report = "No Routes to Export")
           => exportJob = NoExport /\ Len(graphEdges) = 0
    /\ lastOp.op = "write"
           => \E i \in 1..Len(lastOp.content.body) : IsTransition(lastOp.content.body[i])

\* a file of two chained move lines: 'start -> m1', then 'full key after
\* m1 -> m2'
ChainFile(file) ==
    /\ HeaderOK(file)
    /\ Len(file.body) = 2
    /\ ValidTransition(file.body[1]) /\ ValidTransition(file.body[2])
    /\ LineSource(file.body[1]) = START
    /\ LineResult(file.body[1]) # Null /\ LineResult(file.body[2]) # Null
    /\ LineSource(file.body[2]) = LineResult(file.body[1])

\* C27: the load of two chained transitions, whatever was loaded before,
\* leaves the nodes [root, after m1, after m1 m2], two edges, the last node as
\* the only one without an outgoing edge, and one path of two steps
C27_ChainLoadsAsOnePath ==
    (lastOp.op = "load" /\ ChainFile(lastOp.file)) =>
        /\ graphNodes = <<START, boardToFEN(LineResult(lastOp.file.body[1])),
                          boardToFEN(LineResult(lastOp.file.body[2]))>>
        /\ Len(graphEdges) = 2
        /\ TerminalNodes = {2}
        /\ Len(enumeratePaths(G)) = 1
        /\ PathKeys(enumeratePaths(G)[1]) = <<At(graphNodes, 1), At(graphNodes, 2)>>

\* the chain 1.Nf3 Nf6 has been loaded
C27_Witness ==
    /\ lastOp.op = "load" /\ ChainFile(lastOp.file)
    /\ lastOp.file.body[1] = RootNf3
    /\ Len(graphEdges) = 2

\* C28: removeFutureFromGraph(X) removes exactly the edges going out of X,
\* keeps every other edge with its move, annotation and fullFEN, and keeps
\* the node X itself
C28_PruneRemovesOutEdgesKeepsNode ==
    lastOp.op = "prune" =>
        /\ { KeyedEdge(graphNodes, graphEdges[k]) : k \in 1..Len(graphEdges) }
               = { KeyedEdge(lastOp.nodesBefore, lastOp.edgesBefore[i]) :
                     i \in { j \in 1..Len(lastOp.edgesBefore) :
                               lastOp.edgesBefore[j].from # lastOp.index } }
        /\ At(lastOp.nodesBefore, lastOp.index) \in Nodes

\* C29: after addEdgeToGraph, removeFutureFromGraph and loadRoutesFromFile,
\* edgeMap is exactly the map from the (from, to) pair of each edge to the
\* position of that edge in graphEdges
C29_EdgeMapExact ==
    /\ DOMAIN edgeMap = { <<graphEdges[i].from, graphEdges[i].to>> : i \in 1..Len(graphEdges) }
    /\ \A i \in 1..Len(graphEdges) :
           edgeMap[<<graphEdges[i].from, graphEdges[i].to>>] = i - 1

\* a prune removed an edge in front of a surviving one without removing any
\* node, so that the surviving edge moved to an earlier position
C29_Witness ==
    /\ lastOp.op = "prune"
    /\ Len(graphNodes) = Len(lastOp.nodesBefore)
    /\ \E i \in 1..Len(graphEdges), j \in 1..Len(lastOp.edgesBefore) :
           /\ j > i
           /\ graphEdges[i] = lastOp.edgesBefore[j]

\* the edges removeOrphanedNodes finds when removeFutureFromGraph calls it,
\* and the positions of the nodes it has to keep: the root and the endpoints
\* of those edges
EdgesAtOrphanRemoval ==
    SelectSeq(lastOp.edgesBefore, LAMBDA e : e.from # lastOp.index)
KeptPositions ==
    { k \in 1..Len(lastOp.nodesBefore) :
        \/ lastOp.nodesBefore[k] = START
        \/ \E i \in 1..Len(EdgesAtOrphanRemoval) :
              EdgesAtOrphanRemoval[i].from = k - 1 \/ EdgesAtOrphanRemoval[i].to = k - 1 }

\* C30: removeOrphanedNodes leaves graphNodes as the previous list restricted,
\* in the same order, to the root and the nodes with an edge, with every
\* edge between the same source key and target key as before
C30_OrphanRemovalPreservesMeaning ==
    lastOp.op = "prune" =>
        /\ graphNodes = Pick(lastOp.nodesBefore, KeptPositions)
        /\ Len(graphEdges) = Len(EdgesAtOrphanRemoval)
        /\ \A i \in 1..Len(graphEdges) :
              /\ graphEdges[i].from \in 0..(Len(graphNodes) - 1)
              /\ graphEdges[i].to \in 0..(Len(graphNodes) - 1)
              /\ At(graphNodes, graphEdges[i].from)
                     = At(lastOp.nodesBefore, EdgesAtOrphanRemoval[i].from)
              /\ At(graphNodes, graphEdges[i].to)
                     = At(lastOp.nodesBefore, EdgesAtOrphanRemoval[i].to)

\* a node in front of a surviving edge's endpoints was removed, so that the
\* edge is stored under smaller indices than before
C30_Witness ==
    /\ lastOp.op = "prune"
    /\ Len(graphNodes) < Len(lastOp.nodesBefore)
    /\ \E i \in 1..Len(graphEdges) :
           /\ graphEdges[i].from < EdgesAtOrphanRemoval[i].from
           /\ graphEdges[i].to < EdgesAtOrphanRemoval[i].to

\* C31: what drawGraph draws, also when it reuses the cached layout, is the
\* layout of the current node list and edge set
C31_NoStaleLayout ==
    ((lastOp.op \in {"add", "prune", "draw"} /\ lastOp.drew) \/ Loaded)
        => (Len(graphNodes) > 0 => nodePositions = <<Layout(G)>>)

\* C32: the recursion of generatePGNMoveText from the root returns for every
\* graph built by file loads
C32_TraversalTerminates ==
    lastOp.op = "pgn" => lastOp.returned

\* the node keys and the (source key, target key) pairs the valid transition
\* lines of a file name
LineTarget(line) ==
    LET toPart == Part(line, (CHOOSE i \in ArrowPositions(line) : TRUE) + 1, Len(line))
    IN IF LineResult(line) # Null THEN boardToFEN(LineResult(line)) ELSE NodeKey(toPart)
FilePairs(file) ==
    { <<NodeKey(LineSource(file.body[i])), LineTarget(file.body[i])>> :
        i \in { k \in 1..Len(file.body) : ValidTransition(file.body[k]) } }

\* C33: after a load with a valid header every node and every edge is one the
\* file names, the history is ['start'] at index 0, the board is at 'start'
\* and lastEdgeIndex is -1 or the position of an edge
C33_LoadReplacesEverything ==
    Loaded =>
        /\ Nodes = UNION { {p[1], p[2]} : p \in FilePairs(lastOp.file) }
        /\ EdgeKeys(graphNodes, graphEdges) = FilePairs(lastOp.file)
        /\ moveHistory = <<START>> /\ historyIndex = 0
        /\ currentBoardState = START
        /\ lastEdgeIndex \in (-1)..(Len(graphEdges) - 1)

\* a file without transitions was loaded over a graph of three nodes or more
\* (the layout drawn last still shows them): none of its nodes is left
C33_Witness ==
    /\ Loaded
    /\ graphNodes = <<>>
    /\ Len(nodePositions[1].nodes) >= 3

\* the content has just been built from the graph as it is
ContentBuilt ==
    /\ exportJob.pc = "filename"
    /\ lastOp.op = "export" /\ lastOp.report = "Save File"
\* the edge a body line of the content belongs to: the number of transition
\* lines up to the line after it (a comment line) or up to it
EdgeOfExportLine(body, i) ==
    Cardinality({ k \in 1..i : IsTransition(body[k]) }) + (IF IsComment(body[i]) THEN 1 ELSE 0)

SourceFullKey(edge) ==
    IF edge.fullFEN # EmptyStr THEN edge.fullFEN ELSE At(graphNodes, edge.from)
\* the legal moves from the edge's source full key that land on a position
\* with the identity fields of the edge's target
MovesOntoTarget(edge) ==
    { san \in LegalMoves(stateToFEN(SourceFullKey(edge))) :
        getFENKey(ApplyMove(stateToFEN(SourceFullKey(edge)), san))
            = getFENKey(stateToFEN(At(graphNodes, edge.to))) }
\* the n-th transition line of a body
NthTransition(body, n) == SelectSeq(body, IsTransition)[n]
\* the text right of the arrow of a transition line
LineRight(line) == Part(line, (CHOOSE i \in ArrowPositions(line) : TRUE) + 1, Len(line))

\* C35: for an edge without a stored move the exported right side is a legal
\* move from the edge's source full key that lands on the target's identity
\* fields, and '???' only when there is no such move
C35_MoveRederivedFromFullKey ==
    ContentBuilt =>
        \A n \in 1..Len(graphEdges) :
            graphEdges[n].move = EmptyStr =>
                LET written == LineRight(NthTransition(exportJob.content.body, n))
                IN IF MovesOntoTarget(graphEdges[n]) = {}
                   THEN written = <<"???">>
                   ELSE Len(written) = 1 /\ written[1] \in MovesOntoTarget(graphEdges[n])

\* the keys asked for: the positions of a store session and a key that is
\* never a node
ChildKeys == StoreStates \cup ToStates \cup { <<"garbage">> }
\* the elements of a sequence
Range(seq) == { seq[i] : i \in 1..Len(seq) }
\* seq keeps the relative order that its elements have in whole
SameOrder(seq, whole) ==
    /\ Range(seq) \subseteq Range(whole)
    /\ \A i, j \in 1..Len(seq) :
           i < j => \E m, n \in 1..Len(whole) : m < n /\ whole[m] = seq[i] /\ whole[n] = seq[j]

\* C36: getChildren(key) lists the targets of exactly the edges leaving the
\* node of key, oldest edge first: a new edge adds its target at the end,
\* an upsert of an existing edge and an edge from another node change nothing,
\* a prune keeps the relative order of what is left, and a key that is not a
\* node has no children
C36_ChildrenInInsertionOrder ==
    [][ \A key \in ChildKeys :
          /\ key \notin Nodes' => getChildren(key)' = <<>>
          /\ Range(getChildren(key))'
                 = { pair[2] : pair \in { p \in EdgeKeys(graphNodes, graphEdges)' : p[1] = key } }
          /\ Len(getChildren(key))' = Cardinality(Range(getChildren(key)))'
          /\ lastOp'.op = "add" =>
                 getChildren(key)'
                     = IF lastOp'.old = Null /\ key = NodeKey(lastOp'.from)
                       THEN Append(getChildren(key), NodeKey(lastOp'.to))
                       ELSE getChildren(key)
          /\ lastOp'.op = "prune" => SameOrder(getChildren(key)', getChildren(key))
      ]_vars

\* an existing edge, the older of two leaving its node, has just been upserted
C36_Witness ==
    /\ lastOp.op = "add" /\ lastOp.old # Null
    /\ Len(getChildren(NodeKey(lastOp.from))) >= 2
    /\ getChildren(NodeKey(lastOp.from))[1] = NodeKey(lastOp.to)

\* the sources of the edges that lead into the node of key
Sources(key) == { p[1] : p \in { q \in EdgeKeys(graphNodes, graphEdges) : q[2] = key } }

\* C37: getParent(key) is the source of the oldest edge into the node of key
\* that still exists: the first edge into a node makes its source the parent,
\* later edges into it and upserts change no parent, a prune changes a parent
\* only when it removes the edge from that parent, and a key that is not a node
\* or has no incoming edge has the parent null
C37_ParentIsEarliestIncoming ==
    [][ \A key \in ChildKeys :
          /\ IF Sources(key)' = {} THEN getParent(key)' = Null
             ELSE getParent(key)' \in Sources(key)'
          /\ key \notin Nodes' => getParent(key)' = Null
          /\ lastOp'.op = "add" =>
                 getParent(key)'
                     = IF lastOp'.old = Null /\ key = NodeKey(lastOp'.to) /\ getParent(key) = Null
                       THEN NodeKey(lastOp'.from)
                       ELSE getParent(key)
          /\ (lastOp'.op = "prune" /\ getParent(key) \in Sources(key)') =>
                 getParent(key)' = getParent(key)
      ]_vars

\* a second edge into a node has just been added from another source
C37_Witness ==
    /\ lastOp.op = "add" /\ lastOp.old = Null
    /\ Cardinality(Sources(NodeKey(lastOp.to))) >= 2
    /\ getParent(NodeKey(lastOp.to)) # NodeKey(lastOp.from)

\* the last line before line i that holds an arrow, 0 when there is none
PreviousArrowLine(body, i) ==
    LET earlier == { k \in 1..(i - 1) : IsTransition(body[k]) }
    IN IF earlier = {} THEN 0 ELSE CHOOSE k \in earlier : \A m \in earlier : m <= k

\* C38: the annotation of a loaded transition is made of comment lines that
\* stand after the last transition line before it, valid or not: the comments
\* above a skipped transition line go with that line
C38_SkippedLineTakesItsComments ==
    Loaded =>
        \A i \in 1..Len(lastOp.file.body) :
            ValidTransition(lastOp.file.body[i]) =>
                /\ LineEdge(lastOp.file.body[i]) # Null
                /\ \E j \in (PreviousArrowLine(lastOp.file.body, i) + 1)..i :
                       LineEdge(lastOp.file.body[i]).annotation
                           = Join(CommentTexts(lastOp.file.body, j, i))

\* a file with a comment above a skipped transition line, and a commented
\* valid transition after it, has been loaded
C38_Witness ==
    /\ Loaded
    /\ \E i \in 1..Len(lastOp.file.body) :
           /\ i + 3 <= Len(lastOp.file.body)
           /\ IsComment(lastOp.file.body[i])
           /\ InvalidTransition(lastOp.file.body[i + 1])
           /\ IsComment(lastOp.file.body[i + 2])
           /\ ValidTransition(lastOp.file.body[i + 3])
           /\ LineEdge(lastOp.file.body[i + 3]).annotation
                  = Part(lastOp.file.body[i + 2], 2, Len(lastOp.file.body[i + 2]))

\* the full starting FEN with other en-passant fields and move counters
StartVariants ==
    { [START_FEN EXCEPT ![4] = ep, ![5] = half, ![6] = full] :
          ep \in { "-", "e3" }, half \in { "0", "4" }, full \in { "1", "3" } }
\* a key other than 'start' that spells the initial position
SpellsInitialPosition(key) ==
    key # START /\ Len(key) >= 3 /\ SubSeq(key, 1, 3) = SubSeq(START_FEN, 1, 3)

C40_LastEdgeIndexValid ==
    /\ lastEdgeIndex \in (-1)..(Len(graphEdges) - 1)
    /\ lastOp.op = "add" =>
           /\ lastEdgeIndex # -1
           /\ At(graphNodes, At(graphEdges, lastEdgeIndex).from) = NodeKey(lastOp.from)
           /\ At(graphNodes, At(graphEdges, lastEdgeIndex).to) = NodeKey(lastOp.to)

====
